---- MODULE Spec2Model ----
(***************************************************************************)
(* A model of the PayMongo client library: the facade (PayMongo), its      *)
(* singleton accessor, the HTTP transport (HttpClient.request), the error  *)
(* classes and the seven resource clients.                                 *)
(*                                                                         *)
(* JavaScript values are tagged records: [t |-> "undefined"],              *)
(* [t |-> "null"], [t |-> "str", v |-> <chars>], [t |-> "bool", v |-> b],  *)
(* [t |-> "list", v |-> <elements>], [t |-> "obj", f |-> <own fields>],    *)
(* [t |-> "rec", e |-> <own entries, in insertion order>].                 *)
(* A string is the sequence of its pieces; the strings whose characters    *)
(* the code inspects (API keys) are sequences of one-character strings.    *)
(***************************************************************************)
EXTENDS Integers, Sequences, FiniteSets, TLC

VARIABLES
    instance,   \* PayMongo.instance: 0 for null, else the id of a constructed client
    clients,    \* the PayMongo objects constructed so far, in order of construction
    pc,         \* the caller: idle, fetching (awaiting fetch), reading (awaiting
                \* response.text()), settled (resuming with the call's result)
    inflight,   \* the operation being awaited and the request handed to fetch
    fetches,    \* how many times fetch was called for the current/last operation
    last,       \* the call the caller resumes from: its arguments, what the remote
                \* side answered, the state before it, and its outcome
    callers,    \* callers that reach getInstance concurrently: each one's position,
                \* configuration and result (none outside the concurrent start-up)
    remote,     \* the stubbed remote side: what it stores and serves (none when the
                \* remote side answers arbitrarily)
    kept        \* what the caller kept of earlier results, to pass on in later calls

vars == <<instance, clients, pc, inflight, fetches, last, callers, remote, kept>>

\* What the steps of the single sequential caller leave alone.
aside == <<callers, remote, kept>>

--------------------------------------------------------------------------
(* JavaScript values *)

Undefined == [t |-> "undefined"]

Null == [t |-> "null"]

Str(s) == [t |-> "str", v |-> s]

Bool(b) == [t |-> "bool", v |-> b]

Num(n) == [t |-> "num", v |-> n]

List(s) == [t |-> "list", v |-> s]

Obj(fields) == [t |-> "obj", f |-> fields]

EmptyFields == [k \in {} |-> Undefined]

\* A record whose keys the code rewrites: its own entries <<key, value>> in
\* insertion order, each key the sequence of its characters.
Rec(entries) == [t |-> "rec", e |-> entries]

\* ToBoolean of the values the model uses: undefined, null, "" and false are falsy.
Truthy(x) ==
    CASE x.t = "undefined" -> FALSE
      [] x.t = "null" -> FALSE
      [] x.t = "str" -> x.v # <<>>
      [] x.t = "bool" -> x.v
      [] x.t = "num" -> x.v # 0
      [] OTHER -> TRUE

\* x.k for a value that is not null or undefined: an own field or undefined.
Get(x, k) == IF x.t = "obj" /\ k \in DOMAIN x.f THEN x.f[k] ELSE Undefined

\* x ?? d
Coalesce(x, d) == IF x.t \in {"undefined", "null"} THEN d ELSE x

\* x?.k
OptGet(x, k) == IF x.t \in {"undefined", "null"} THEN Undefined ELSE Get(x, k)

\* String.prototype.startsWith
StartsWith(s, prefix) ==
    /\ Len(s) >= Len(prefix)
    /\ SubSeq(s, 1, Len(prefix)) = prefix

--------------------------------------------------------------------------
(* Bounds and inputs *)

\* How many PayMongo objects are constructed in one behaviour.
MaxClients == 2

PublicPrefix == <<"p", "k", "_">>

SecretPrefix == <<"s", "k", "_">>

\* Values a caller passes as publicKey / secretKey: absent, empty, well-formed
\* keys of both kinds, and a key with neither prefix.
KeyInputs ==
    { Undefined,
      Str(<<>>),
      Str(<<"p", "k", "_", "a">>),
      Str(<<"s", "k", "_", "a", "b">>),
      Str(<<"x", "k", "_", "a">>) }

DEFAULT_BASE_URL == <<"https://api.paymongo.com", "/v1">>

\* Values a caller passes as baseUrl: an origin followed by its path.
BaseUrlInputs == { Undefined, Str(<<"https://stub.test", "/v9">>) }

Configs ==
    [publicKey : KeyInputs, secretKey : KeyInputs, baseUrl : BaseUrlInputs]

--------------------------------------------------------------------------
(* Errors *)

PayMongoConfigError(message) ==
    [kind |-> "PayMongoConfigError", message |-> message]

\* Seeded fault: the cause is not kept.
PayMongoNetworkErrorDropsCause(message, originalError) ==
    [kind |-> "PayMongoNetworkError", message |-> message,
     originalError |-> Undefined]

PayMongoNetworkError(message, originalError) ==
    [kind |-> "PayMongoNetworkError", message |-> message,
     originalError |-> originalError]

PayMongoError(message, status, code, errors, rawResponse) ==
    [kind |-> "PayMongoError", message |-> message, status |-> status,
     code |-> code, errors |-> errors, rawResponse |-> rawResponse]

\* A value returned normally.
Returned(v) == [kind |-> "value", value |-> v]

\* A TypeError raised by the runtime (a property read on null).
TypeError == [kind |-> "TypeError"]

--------------------------------------------------------------------------
(* Facade: PayMongo.resolveConfig, constructor, getInstance, resetInstance *)

\* Seeded fault: the check for missing keys is left out.
resolveConfigNoEmptyCheck(config) ==
    LET publicKey == config.publicKey
        secretKey == config.secretKey
        apiKey == IF Truthy(secretKey) THEN secretKey ELSE publicKey
        isPublicKey == ~Truthy(secretKey) /\ Truthy(publicKey)
    IN  IF isPublicKey /\ ~StartsWith(apiKey.v, PublicPrefix)
          THEN PayMongoConfigError("Invalid public key format")
        ELSE IF ~isPublicKey /\ Truthy(apiKey) /\ ~StartsWith(apiKey.v, SecretPrefix)
          THEN PayMongoConfigError("Invalid secret key format")
        ELSE Returned([apiKey |-> IF Truthy(apiKey) THEN apiKey.v ELSE <<>>,
                       baseUrl |-> IF Truthy(config.baseUrl)
                                     THEN config.baseUrl.v ELSE DEFAULT_BASE_URL,
                       isPublicKey |-> isPublicKey])

\* Seeded fault: the prefix checks are left out.
resolveConfigNoPrefixCheck(config) ==
    LET publicKey == config.publicKey
        secretKey == config.secretKey
        apiKey == IF Truthy(secretKey) THEN secretKey ELSE publicKey
        isPublicKey == ~Truthy(secretKey) /\ Truthy(publicKey)
    IN  IF ~Truthy(publicKey) /\ ~Truthy(secretKey)
          THEN PayMongoConfigError("PayMongo requires either a publicKey or secretKey")
        ELSE Returned([apiKey |-> apiKey.v,
                       baseUrl |-> IF Truthy(config.baseUrl)
                                     THEN config.baseUrl.v ELSE DEFAULT_BASE_URL,
                       isPublicKey |-> isPublicKey])

\* Seeded fault: the public key is preferred when both keys are given.
resolveConfigPrefersPublic(config) ==
    LET publicKey == config.publicKey
        secretKey == config.secretKey
        apiKey == IF Truthy(publicKey) THEN publicKey ELSE secretKey
        isPublicKey == Truthy(publicKey)
    IN  IF ~Truthy(publicKey) /\ ~Truthy(secretKey)
          THEN PayMongoConfigError("PayMongo requires either a publicKey or secretKey")
        ELSE IF isPublicKey /\ ~StartsWith(apiKey.v, PublicPrefix)
          THEN PayMongoConfigError("Invalid public key format")
        ELSE IF ~isPublicKey /\ ~StartsWith(apiKey.v, SecretPrefix)
          THEN PayMongoConfigError("Invalid secret key format")
        ELSE Returned([apiKey |-> apiKey.v,
                       baseUrl |-> IF Truthy(config.baseUrl)
                                     THEN config.baseUrl.v ELSE DEFAULT_BASE_URL,
                       isPublicKey |-> isPublicKey])

\* The resolved configuration, or the PayMongoConfigError thrown.
resolveConfig(config) ==
    LET publicKey == config.publicKey
        secretKey == config.secretKey
        apiKey == IF Truthy(secretKey) THEN secretKey ELSE publicKey
        isPublicKey == ~Truthy(secretKey) /\ Truthy(publicKey)
    IN  IF ~Truthy(publicKey) /\ ~Truthy(secretKey)
          THEN PayMongoConfigError("PayMongo requires either a publicKey or secretKey")
        ELSE IF isPublicKey /\ ~StartsWith(apiKey.v, PublicPrefix)
          THEN PayMongoConfigError("Invalid public key format")
        ELSE IF ~isPublicKey /\ ~StartsWith(apiKey.v, SecretPrefix)
          THEN PayMongoConfigError("Invalid secret key format")
        ELSE Returned([apiKey |-> apiKey.v,
                       baseUrl |-> IF Truthy(config.baseUrl)
                                     THEN config.baseUrl.v ELSE DEFAULT_BASE_URL,
                       isPublicKey |-> isPublicKey])

\* The seven resource clients a facade constructs, each with its base path.
BasePath ==
    [paymentIntents |-> "/payment_intents",
     paymentMethods |-> "/payment_methods",
     payments |-> "/payments",
     customers |-> "/customers",
     refunds |-> "/refunds",
     webhooks |-> "/webhooks",
     checkoutSessions |-> "/checkout_sessions"]

Resources == DOMAIN BasePath

\* new PayMongo(config): the object constructed (its config, its HttpClient's
\* config and its resource clients, all sharing that one HttpClient), or the
\* error thrown before anything is constructed.
PayMongoNew(config) ==
    LET resolved == resolveConfig(config)
    IN  IF resolved.kind # "value"
          THEN resolved
          ELSE Returned([config |-> resolved.value,
                         http |-> [config |-> resolved.value],
                         resources |-> Resources])

isClientSide(client) == client.config.isPublicKey

\* Seeded fault: every client reports server-side mode.
isServerSideAlways(client) == TRUE

isServerSide(client) == ~client.config.isPublicKey

\* A reference to the client with identity id.
Ref(id) == [t |-> "client", id |-> id]

\* Seeded fault: the constructor stores what it constructs as the singleton.
ConstructStoresInstance(config) ==
    /\ pc = "idle"
    /\ Len(clients) < MaxClients
    /\ LET made == PayMongoNew(config)
       IN  /\ clients' = IF made.kind = "value"
                           THEN Append(clients, made.value) ELSE clients
           /\ instance' = IF made.kind = "value"
                            THEN Len(clients) + 1 ELSE instance
           /\ last' = [api |-> "new", config |-> config, constructs |-> TRUE,
                       before |-> [clients |-> Len(clients), instance |-> instance],
                       outcome |-> IF made.kind = "value"
                                     THEN Returned(Ref(Len(clients) + 1))
                                     ELSE made]
    /\ pc' = "settled"
    /\ UNCHANGED <<inflight, fetches, aside>>

\* const c = new PayMongo(config)
Construct(config) ==
    /\ pc = "idle"
    /\ Len(clients) < MaxClients
    /\ LET made == PayMongoNew(config)
       IN  /\ clients' = IF made.kind = "value"
                           THEN Append(clients, made.value) ELSE clients
           /\ last' = [api |-> "new", config |-> config, constructs |-> TRUE,
                       before |-> [clients |-> Len(clients), instance |-> instance],
                       outcome |-> IF made.kind = "value"
                                     THEN Returned(Ref(Len(clients) + 1))
                                     ELSE made]
    /\ pc' = "settled"
    /\ UNCHANGED <<instance, inflight, fetches, aside>>

\* Seeded fault: the stored instance is never reused.
GetInstanceIgnoresStored(config, forceNew) ==
    /\ pc = "idle"
    /\ Len(clients) < MaxClients
    /\ LET made == PayMongoNew(config)
       IN  /\ clients' = IF made.kind = "value"
                           THEN Append(clients, made.value) ELSE clients
           /\ instance' = IF made.kind = "value"
                            THEN Len(clients) + 1 ELSE instance
           /\ last' = [api |-> "getInstance", config |-> config,
                       forceNew |-> forceNew, constructs |-> TRUE,
                       before |-> [clients |-> Len(clients), instance |-> instance],
                       outcome |-> IF made.kind = "value"
                                     THEN Returned(Ref(Len(clients) + 1))
                                     ELSE made]
    /\ pc' = "settled"
    /\ UNCHANGED <<inflight, fetches, aside>>

\* Seeded fault: the stored instance is cleared before the constructor runs, so
\* a constructor that throws leaves none stored.
GetInstanceClearsFirst(config, forceNew) ==
    /\ pc = "idle"
    /\ IF instance = 0 \/ forceNew
         THEN /\ Len(clients) < MaxClients
              /\ LET made == PayMongoNew(config)
                 IN  /\ clients' = IF made.kind = "value"
                                     THEN Append(clients, made.value) ELSE clients
                     /\ instance' = IF made.kind = "value"
                                      THEN Len(clients) + 1 ELSE 0
                     /\ last' = [api |-> "getInstance", config |-> config,
                                 forceNew |-> forceNew, constructs |-> TRUE,
                                 before |-> [clients |-> Len(clients),
                                             instance |-> instance],
                                 outcome |-> IF made.kind = "value"
                                               THEN Returned(Ref(Len(clients) + 1))
                                               ELSE made]
         ELSE /\ last' = [api |-> "getInstance", config |-> config,
                          forceNew |-> forceNew, constructs |-> FALSE,
                          before |-> [clients |-> Len(clients), instance |-> instance],
                          outcome |-> Returned(Ref(instance))]
              /\ UNCHANGED <<clients, instance>>
    /\ pc' = "settled"
    /\ UNCHANGED <<inflight, fetches, aside>>

\* PayMongo.getInstance(config) with config.forceNew as given
GetInstance(config, forceNew) ==
    /\ pc = "idle"
    /\ IF instance = 0 \/ forceNew
         THEN /\ Len(clients) < MaxClients
              /\ LET made == PayMongoNew(config)
                 IN  /\ clients' = IF made.kind = "value"
                                     THEN Append(clients, made.value) ELSE clients
                     /\ instance' = IF made.kind = "value"
                                      THEN Len(clients) + 1 ELSE instance
                     /\ last' = [api |-> "getInstance", config |-> config,
                                 forceNew |-> forceNew, constructs |-> TRUE,
                                 before |-> [clients |-> Len(clients),
                                             instance |-> instance],
                                 outcome |-> IF made.kind = "value"
                                               THEN Returned(Ref(Len(clients) + 1))
                                               ELSE made]
         ELSE /\ last' = [api |-> "getInstance", config |-> config,
                          forceNew |-> forceNew, constructs |-> FALSE,
                          before |-> [clients |-> Len(clients), instance |-> instance],
                          outcome |-> Returned(Ref(instance))]
              /\ UNCHANGED <<clients, instance>>
    /\ pc' = "settled"
    /\ UNCHANGED <<inflight, fetches, aside>>

\* PayMongo.resetInstance()
ResetInstance ==
    /\ pc = "idle"
    /\ instance # 0
    /\ instance' = 0
    /\ last' = [api |-> "resetInstance", outcome |-> Returned(Undefined)]
    /\ pc' = "settled"
    /\ UNCHANGED <<clients, inflight, fetches, aside>>

--------------------------------------------------------------------------
(* Base64, as btoa and Buffer.prototype.toString('base64') compute it *)

\* The characters API keys are made of, and the colon getAuthHeader appends.
Digits ==
    << "0", "1", "2", "3", "4", "5", "6", "7", "8", "9" >>

UpperCase ==
    << "A", "B", "C", "D", "E", "F", "G", "H", "I", "J", "K", "L", "M", "N", "O", "P",
       "Q", "R", "S", "T", "U", "V", "W", "X", "Y", "Z" >>

LowerCase ==
    << "a", "b", "c", "d", "e", "f", "g", "h", "i", "j", "k", "l", "m", "n", "o", "p",
       "q", "r", "s", "t", "u", "v", "w", "x", "y", "z" >>

IndexOf(c, seq) == CHOOSE i \in 1..Len(seq) : seq[i] = c

\* The code unit (ASCII) of each one-character string the keys are written in.
CodeUnits ==
    [c \in {":", "_"} \cup {Digits[i] : i \in 1..Len(Digits)}
            \cup {UpperCase[i] : i \in 1..Len(UpperCase)}
            \cup {LowerCase[i] : i \in 1..Len(LowerCase)} |->
        CASE c = ":" -> 58
          [] c = "_" -> 95
          [] \E i \in 1..Len(Digits) : Digits[i] = c -> 47 + IndexOf(c, Digits)
          [] \E i \in 1..Len(UpperCase) : UpperCase[i] = c -> 64 + IndexOf(c, UpperCase)
          [] \E i \in 1..Len(LowerCase) : LowerCase[i] = c -> 96 + IndexOf(c, LowerCase)]

\* The code unit (ASCII) of a one-character string.
Ord(c) == CodeUnits[c]

Base64Alphabet ==
    << "A", "B", "C", "D", "E", "F", "G", "H", "I", "J", "K", "L", "M", "N", "O", "P",
       "Q", "R", "S", "T", "U", "V", "W", "X", "Y", "Z", "a", "b", "c", "d", "e", "f",
       "g", "h", "i", "j", "k", "l", "m", "n", "o", "p", "q", "r", "s", "t", "u", "v",
       "w", "x", "y", "z", "0", "1", "2", "3", "4", "5", "6", "7", "8", "9", "+", "/" >>

\* The bytes btoa reads from a string: one byte per (Latin-1) character.
Latin1Bytes(s) == [i \in 1..Len(s) |-> Ord(s[i])]

\* The bytes Buffer.from(s) holds: the UTF-8 encoding, one byte per ASCII character.
Utf8Bytes(s) == [i \in 1..Len(s) |-> Ord(s[i])]

RECURSIVE Base64Encode(_)
\* Three bytes become four sextets; a final group of one or two bytes is padded.
Base64Encode(bytes) ==
    IF bytes = <<>> THEN <<>>
    ELSE LET n == Len(bytes)
             b1 == bytes[1]
             b2 == IF n >= 2 THEN bytes[2] ELSE 0
             b3 == IF n >= 3 THEN bytes[3] ELSE 0
             s1 == b1 \div 4
             s2 == (b1 % 4) * 16 + (b2 \div 16)
             s3 == (b2 % 16) * 4 + (b3 \div 64)
             s4 == b3 % 64
         IN  << Base64Alphabet[s1 + 1],
                Base64Alphabet[s2 + 1],
                IF n >= 2 THEN Base64Alphabet[s3 + 1] ELSE "=",
                IF n >= 3 THEN Base64Alphabet[s4 + 1] ELSE "=" >>
             \o Base64Encode(SubSeq(bytes, 4, n))

btoa(s) == Base64Encode(Latin1Bytes(s))

BufferToBase64(s) == Base64Encode(Utf8Bytes(s))

--------------------------------------------------------------------------
(* Transport: HttpClient *)

\* Whether the runtime defines a global btoa (browsers, recent Node.js) or only Buffer.
Runtimes == {"btoa", "Buffer"}

\* Seeded fault: the credentials lack the colon that ends the username.
getAuthHeaderNoColon(config, runtime) ==
    LET credentials == config.apiKey
        encoded == IF runtime = "btoa" THEN btoa(credentials)
                   ELSE BufferToBase64(credentials)
    IN  <<"B", "a", "s", "i", "c", " ">> \o encoded

\* HttpClient.getAuthHeader
getAuthHeader(config, runtime) ==
    LET credentials == config.apiKey \o <<":">>
        encoded == IF runtime = "btoa" THEN btoa(credentials)
                   ELSE BufferToBase64(credentials)
    IN  <<"B", "a", "s", "i", "c", " ">> \o encoded

\* String(value): the pieces of the text a value converts to.
String(value) ==
    CASE value.t = "str" -> value.v
      [] value.t = "num" -> <<ToString(value.v)>>
      [] value.t = "bool" -> IF value.v THEN <<"true">> ELSE <<"false">>
      [] value.t = "null" -> <<"null">>
      [] value.t = "undefined" -> <<"undefined">>

\* Seeded fault: values are tested for truthiness, so 0, false and "" are dropped.
buildUrlTruthyOnly(config, path, params) ==
    [origin |-> config.baseUrl[1],
     path |-> path,
     query |-> IF params.t = "undefined" THEN <<>>
               ELSE LET appended == SelectSeq(params.v, LAMBDA kv : Truthy(kv[2]))
                    IN  [i \in 1..Len(appended) |->
                           <<appended[i][1], String(appended[i][2])>>]]

\* new URL(path, baseUrl) for a path that starts with "/": the base's origin is
\* kept and the reference's path replaces the base's path.  Then each
\* parameter whose value is not undefined is appended to url.searchParams, the
\* list of name-value pairs the query is serialized from.
buildUrl(config, path, params) ==
    [origin |-> config.baseUrl[1],
     path |-> path,
     query |-> IF params.t = "undefined" THEN <<>>
               ELSE LET appended == SelectSeq(params.v,
                                              LAMBDA kv : kv[2].t # "undefined")
                    IN  [i \in 1..Len(appended) |->
                           <<appended[i][1], String(appended[i][2])>>]]

RECURSIVE JsonStringify(_)
\* JSON.stringify(body), as the value its text denotes: a property whose value
\* is undefined is left out, null is written as null, and undefined in a
\* sequence is written as null.
JsonStringify(value) ==
    CASE value.t = "rec" ->
           LET written == SelectSeq(value.e, LAMBDA kv : kv[2].t # "undefined")
           IN  Rec([i \in 1..Len(written) |->
                      <<written[i][1], JsonStringify(written[i][2])>>])
      [] value.t = "obj" ->
           Obj([k \in {p \in DOMAIN value.f : value.f[p].t # "undefined"} |->
                  JsonStringify(value.f[k])])
      [] value.t = "list" ->
           List([i \in 1..Len(value.v) |->
                   IF value.v[i].t = "undefined" THEN Null
                   ELSE JsonStringify(value.v[i])])
      [] OTHER -> value

\* Seeded fault: a body is sent whatever the method.
FetchArgsAnyMethod(config, runtime, options) ==
    [url |-> buildUrl(config, options.path, options.params),
     method |-> options.method,
     headers |-> [Authorization |-> getAuthHeader(config, runtime),
                  ContentType |-> "application/json",
                  Accept |-> "application/json"],
     body |-> IF Truthy(options.body)
                THEN [t |-> "json", v |-> JsonStringify(options.body)]
                ELSE Undefined]

\* The argument HttpClient.request hands to fetch.
FetchArgs(config, runtime, options) ==
    [url |-> buildUrl(config, options.path, options.params),
     method |-> options.method,
     headers |-> [Authorization |-> getAuthHeader(config, runtime),
                  ContentType |-> "application/json",
                  Accept |-> "application/json"],
     body |-> IF Truthy(options.body) /\ options.method \in {"POST", "PATCH"}
                THEN [t |-> "json", v |-> JsonStringify(options.body)]
                ELSE Undefined]

\* HttpClient.get / post / patch / delete
HttpGet(path, params) ==
    [method |-> "GET", path |-> path, body |-> Undefined, params |-> params]

HttpPost(path, body) ==
    [method |-> "POST", path |-> path, body |-> body, params |-> Undefined]

HttpPatch(path, body) ==
    [method |-> "PATCH", path |-> path, body |-> body, params |-> Undefined]

HttpDelete(path) ==
    [method |-> "DELETE", path |-> path, body |-> Undefined, params |-> Undefined]

--------------------------------------------------------------------------
(* Responses *)

\* Seeded fault: only status 200 counts as success.
ResponseOkOnly200(status) == status = 200

\* Response.ok of the Fetch API: the status is in the range 200-299.
ResponseOk(status) == status >= 200 /\ status <= 299

\* What response.text() yields: the empty text, a text JSON.parse rejects, or
\* the JSON text of a value.
EmptyText == [empty |-> TRUE, parses |-> FALSE]

GarbageText == [empty |-> FALSE, parses |-> FALSE]

JsonText(v) == [empty |-> FALSE, parses |-> TRUE, value |-> v]

\* Seeded fault: a text that does not parse leaves an empty object.
ParseBodyEmptyObject(read) ==
    IF read.kind = "rejects" THEN Null
    ELSE IF read.text.empty THEN Null
    ELSE IF read.text.parses THEN read.text.value
    ELSE Obj(EmptyFields)

\* The responseBody HttpClient.request ends with: `read` is the outcome of
\* `await response.text()`, a text or a rejection; both the rejection and a
\* SyntaxError of JSON.parse are caught and leave null.
ParseBody(read) ==
    IF read.kind = "rejects" THEN Null
    ELSE IF read.text.empty THEN Null
    ELSE IF read.text.parses THEN read.text.value
    ELSE Null

\* Seeded fault: the last error detail is read instead of the first.
fromResponseLastError(status, body) ==
    LET errors == Coalesce(OptGet(body, "errors"), List(<<>>))
        firstError == IF errors.t = "list" /\ Len(errors.v) >= 1
                        THEN errors.v[Len(errors.v)] ELSE Undefined
        message == Coalesce(OptGet(firstError, "detail"),
                            Str(<<"PayMongo API error (status ", ToString(status), ")">>))
        code == Coalesce(OptGet(firstError, "code"), Str(<<"unknown_error">>))
    IN  PayMongoError(message, status, code, errors, body)

\* PayMongoError.fromResponse
fromResponse(status, body) ==
    LET errors == Coalesce(OptGet(body, "errors"), List(<<>>))
        firstError == IF errors.t = "list" /\ Len(errors.v) >= 1
                        THEN errors.v[1] ELSE Undefined
        message == Coalesce(OptGet(firstError, "detail"),
                            Str(<<"PayMongo API error (status ", ToString(status), ")">>))
        code == Coalesce(OptGet(firstError, "code"), Str(<<"unknown_error">>))
    IN  PayMongoError(message, status, code, errors, body)

\* Seeded fault: a failed read of the body is thrown as a network error.
RequestSettleReadFailureThrown(status, read) ==
    LET responseBody == ParseBody(read)
    IN  IF read.kind = "rejects"
          THEN PayMongoNetworkError(
                   "Network error while communicating with PayMongo API",
                   [t |-> "error", name |-> "TypeError"])
        ELSE IF ~ResponseOk(status)
          THEN fromResponse(status, responseBody)
          ELSE Returned(responseBody)

\* How HttpClient.request settles once the response's status and text are in.
RequestSettle(status, read) ==
    LET responseBody == ParseBody(read)
    IN  IF ~ResponseOk(status)
          THEN fromResponse(status, responseBody)
          ELSE Returned(responseBody)

--------------------------------------------------------------------------
(* Resource clients *)

\* Seeded fault: the id is left out of the path.
buildPathIgnoresId(basePath, id, suffix) ==
    IF Truthy(suffix) THEN <<basePath>> \o <<"/">> \o suffix.v ELSE <<basePath>>

\* Seeded fault: a suffix is appended only after an id.
buildPathSuffixNeedsId(basePath, id, suffix) ==
    IF Truthy(id)
      THEN IF Truthy(suffix) THEN <<basePath, "/">> \o id.v \o <<"/">> \o suffix.v
           ELSE <<basePath, "/">> \o id.v
      ELSE <<basePath>>

\* BaseResource.buildPath
buildPath(basePath, id, suffix) ==
    LET withId == IF Truthy(id) THEN <<basePath, "/">> \o id.v ELSE <<basePath>>
    IN  IF Truthy(suffix) THEN withId \o <<"/">> \o suffix.v ELSE withId

RECURSIVE SnakeKey(_)
\* key.replace(/[A-Z]/g, (letter) => `_${letter.toLowerCase()}`)
SnakeKey(key) ==
    IF key = <<>> THEN <<>>
    ELSE LET letter == Head(key)
         IN  IF \E i \in 1..Len(UpperCase) : UpperCase[i] = letter
               THEN <<"_", LowerCase[IndexOf(letter, UpperCase)]>> \o SnakeKey(Tail(key))
               ELSE <<letter>> \o SnakeKey(Tail(key))

\* result[key] = value: an existing key keeps its place and takes the new value.
SetEntry(entries, key, value) ==
    IF \E i \in 1..Len(entries) : entries[i][1] = key
      THEN [i \in 1..Len(entries) |->
              IF entries[i][1] = key THEN <<key, value>> ELSE entries[i]]
      ELSE Append(entries, <<key, value>>)

RECURSIVE toSnakeCaseShallow(_)
\* Seeded fault: nested records are copied as they are.
toSnakeCaseShallow(obj) ==
    LET RECURSIVE Entries(_, _)
        Entries(i, result) ==
            IF i > Len(obj.e) THEN result
            ELSE LET snakeKey == SnakeKey(obj.e[i][1])
                     value == obj.e[i][2]
                 IN  IF value.t \notin {"undefined", "null"}
                       THEN Entries(i + 1, SetEntry(result, snakeKey, value))
                       ELSE Entries(i + 1, result)
    IN  Rec(Entries(1, <<>>))

RECURSIVE toSnakeCase(_)
\* BaseResource.toSnakeCase: the loop over Object.entries(obj)
toSnakeCase(obj) ==
    LET RECURSIVE Entries(_, _)
        Entries(i, result) ==
            IF i > Len(obj.e) THEN result
            ELSE LET snakeKey == SnakeKey(obj.e[i][1])
                     value == obj.e[i][2]
                 IN  IF value.t \notin {"undefined", "null"}
                       THEN IF value.t = "rec"
                              THEN Entries(i + 1, SetEntry(result, snakeKey,
                                                           toSnakeCase(value)))
                              ELSE Entries(i + 1, SetEntry(result, snakeKey, value))
                       ELSE Entries(i + 1, result)
    IN  Rec(Entries(1, <<>>))

\* The property names the resource clients write in object literals and read
\* from their parameters, and the keys of the callers' nested records, each as
\* the sequence of its characters.
KeyChars ==
    [amount |-> << "a", "m", "o", "u", "n", "t" >>,
     currency |-> << "c", "u", "r", "r", "e", "n", "c", "y" >>,
     paymentMethodAllowed |-> << "p", "a", "y", "m", "e", "n", "t", "M", "e", "t",
            "h", "o", "d", "A", "l", "l", "o", "w", "e", "d" >>,
     description |-> << "d", "e", "s", "c", "r", "i", "p", "t", "i", "o", "n" >>,
     statementDescriptor |-> << "s", "t", "a", "t", "e", "m", "e", "n", "t", "D",
            "e", "s", "c", "r", "i", "p", "t", "o", "r" >>,
     metadata |-> << "m", "e", "t", "a", "d", "a", "t", "a" >>,
     captureType |-> << "c", "a", "p", "t", "u", "r", "e", "T", "y", "p", "e" >>,
     setupFutureUsage |-> << "s", "e", "t", "u", "p", "F", "u", "t", "u", "r", "e",
            "U", "s", "a", "g", "e" >>,
     paymentMethodOptions |-> << "p", "a", "y", "m", "e", "n", "t", "M", "e", "t",
            "h", "o", "d", "O", "p", "t", "i", "o", "n", "s" >>,
     paymentMethod |-> << "p", "a", "y", "m", "e", "n", "t", "M", "e", "t", "h", "o",
            "d" >>,
     clientKey |-> << "c", "l", "i", "e", "n", "t", "K", "e", "y" >>,
     returnUrl |-> << "r", "e", "t", "u", "r", "n", "U", "r", "l" >>,
     email |-> << "e", "m", "a", "i", "l" >>,
     firstName |-> << "f", "i", "r", "s", "t", "N", "a", "m", "e" >>,
     lastName |-> << "l", "a", "s", "t", "N", "a", "m", "e" >>,
     phone |-> << "p", "h", "o", "n", "e" >>,
     defaultPaymentMethodId |-> << "d", "e", "f", "a", "u", "l", "t", "P", "a", "y",
            "m", "e", "n", "t", "M", "e", "t", "h", "o", "d", "I", "d" >>,
     defaultDevice |-> << "d", "e", "f", "a", "u", "l", "t", "D", "e", "v", "i", "c",
            "e" >>,
     paymentId |-> << "p", "a", "y", "m", "e", "n", "t", "I", "d" >>,
     reason |-> << "r", "e", "a", "s", "o", "n" >>,
     notes |-> << "n", "o", "t", "e", "s" >>,
     url |-> << "u", "r", "l" >>,
     events |-> << "e", "v", "e", "n", "t", "s" >>,
     billing |-> << "b", "i", "l", "l", "i", "n", "g" >>,
     type |-> << "t", "y", "p", "e" >>,
     details |-> << "d", "e", "t", "a", "i", "l", "s" >>,
     cardNumber |-> << "c", "a", "r", "d", "N", "u", "m", "b", "e", "r" >>,
     expMonth |-> << "e", "x", "p", "M", "o", "n", "t", "h" >>,
     expYear |-> << "e", "x", "p", "Y", "e", "a", "r" >>,
     cvc |-> << "c", "v", "c" >>,
     card_number |-> << "c", "a", "r", "d", "_", "n", "u", "m", "b", "e", "r" >>,
     exp_month |-> << "e", "x", "p", "_", "m", "o", "n", "t", "h" >>,
     exp_year |-> << "e", "x", "p", "_", "y", "e", "a", "r" >>,
     line_items |-> << "l", "i", "n", "e", "_", "i", "t", "e", "m", "s" >>,
     payment_method_types |-> << "p", "a", "y", "m", "e", "n", "t", "_", "m", "e",
            "t", "h", "o", "d", "_", "t", "y", "p", "e", "s" >>,
     success_url |-> << "s", "u", "c", "c", "e", "s", "s", "_", "u", "r", "l" >>,
     cancel_url |-> << "c", "a", "n", "c", "e", "l", "_", "u", "r", "l" >>,
     billing_information_fields_editable |-> << "b", "i", "l", "l", "i", "n", "g",
            "_", "i", "n", "f", "o", "r", "m", "a", "t", "i", "o", "n", "_", "f",
            "i", "e", "l", "d", "s", "_", "e", "d", "i", "t", "a", "b", "l", "e" >>,
     send_email_receipt |-> << "s", "e", "n", "d", "_", "e", "m", "a", "i", "l", "_",
            "r", "e", "c", "e", "i", "p", "t" >>,
     show_description |-> << "s", "h", "o", "w", "_", "d", "e", "s", "c", "r", "i",
            "p", "t", "i", "o", "n" >>,
     show_line_items |-> << "s", "h", "o", "w", "_", "l", "i", "n", "e", "_", "i",
            "t", "e", "m", "s" >>,
     reference_number |-> << "r", "e", "f", "e", "r", "e", "n", "c", "e", "_", "n",
            "u", "m", "b", "e", "r" >>,
     images |-> << "i", "m", "a", "g", "e", "s" >>,
     name |-> << "n", "a", "m", "e" >>,
     quantity |-> << "q", "u", "a", "n", "t", "i", "t", "y" >>,
     card |-> << "c", "a", "r", "d" >>,
     request_three_d_secure |-> << "r", "e", "q", "u", "e", "s", "t", "_", "t", "h",
            "r", "e", "e", "_", "d", "_", "s", "e", "c", "u", "r", "e" >>,
     orderId |-> << "o", "r", "d", "e", "r", "I", "d" >>,
     note |-> << "n", "o", "t", "e" >>,
     address |-> << "a", "d", "d", "r", "e", "s", "s" >>,
     line1 |-> << "l", "i", "n", "e", "1" >>,
     postal_code |-> << "p", "o", "s", "t", "a", "l", "_", "c", "o", "d", "e" >>]

\* An object literal { name: value, ... }: its properties in the order written.
ObjectLiteral(props) ==
    Rec([i \in 1..Len(props) |-> <<KeyChars[props[i][1]], props[i][2]>>])

\* x.name for a record read by property name: the value of its entry, or
\* undefined when it has none.
GetEntry(x, name) ==
    IF x.t = "rec" /\ \E i \in 1..Len(x.e) : x.e[i][1] = KeyChars[name]
      THEN x.e[CHOOSE i \in 1..Len(x.e) : x.e[i][1] = KeyChars[name]][2]
      ELSE Undefined

\* The request body of an operation that sends one: { data: { attributes } }.
Envelope(attributes) == Obj([data |-> Obj([attributes |-> attributes])])

\* Seeded fault: the attributes are wrapped as they are.
wrapBodyAsGiven(attributes) == Envelope(attributes)

\* BaseResource.wrapBody (the attributes are taken from a one-element set so
\* that the object literal passed in is built once)
wrapBody(attributes) ==
    CHOOSE body \in { Envelope(toSnakeCase(given)) : given \in {attributes} } : TRUE

\* Seeded fault: the after cursor is not copied into queryParams.
ListQueryDropsAfter(params, names) ==
    LET picked == SelectSeq(names, LAMBDA nm : nm[1] # "after"
                                               /\ Truthy(OptGet(params, nm[1])))
    IN  [t |-> "params",
         v |-> [i \in 1..Len(picked) |->
                   <<picked[i][2], OptGet(params, picked[i][1])>>]]

\* The queryParams object a list operation builds: for each <<name, wire name>>
\* whose value in params is truthy, wire name = value, in the order of the code.
ListQuery(params, names) ==
    LET picked == SelectSeq(names, LAMBDA nm : Truthy(OptGet(params, nm[1])))
    IN  [t |-> "params",
         v |-> [i \in 1..Len(picked) |->
                   <<picked[i][2], OptGet(params, picked[i][1])>>]]

\* Seeded fault: the whole envelope is returned.
UnwrapDataWholeEnvelope(response) ==
    IF response.t \in {"null", "undefined"} THEN TypeError
    ELSE Returned(response)

\* `return response.data`: a TypeError when request returned null.
UnwrapData(response) ==
    IF response.t \in {"null", "undefined"} THEN TypeError
    ELSE Returned(Get(response, "data"))

\* Seeded fault: a page of two is returned in the opposite order.
UnwrapListSorted(response) ==
    IF response.t \in {"null", "undefined"} THEN TypeError
    ELSE LET d == Get(response, "data")
         IN  Returned(Obj([data |-> IF d.t = "list" /\ Len(d.v) = 2
                                      THEN List(<<d.v[2], d.v[1]>>) ELSE d,
                           hasMore |-> Get(response, "has_more")]))

\* `return { data: response.data, hasMore: response.has_more }`
UnwrapList(response) ==
    IF response.t \in {"null", "undefined"} THEN TypeError
    ELSE Returned(Obj([data |-> Get(response, "data"),
                       hasMore |-> Get(response, "has_more")]))

\* Each operation: the options it passes to HttpClient.request and how it
\* unwraps the response ("data" or "list").
PaymentIntents(name, a) ==
    LET basePath == BasePath.paymentIntents
        params == a.params
    IN  CASE name = "create" ->
               [options |->
                  HttpPost(buildPath(basePath, Undefined, Undefined),
                           wrapBody(ObjectLiteral(
                             << <<"amount", Get(params, "amount")>>,
                                <<"currency", Coalesce(Get(params, "currency"),
                                                       Str(<<"PHP">>))>>,
                                <<"paymentMethodAllowed",
                                  Get(params, "paymentMethodAllowed")>>,
                                <<"description", Get(params, "description")>>,
                                <<"statementDescriptor",
                                  Get(params, "statementDescriptor")>>,
                                <<"metadata", Get(params, "metadata")>>,
                                <<"captureType", Get(params, "captureType")>>,
                                <<"setupFutureUsage", Get(params, "setupFutureUsage")>>,
                                <<"paymentMethodOptions",
                                  Get(params, "paymentMethodOptions")>> >>))),
                returns |-> "data"]
          [] name = "retrieve" ->
               [options |-> HttpGet(buildPath(basePath, a.id, Undefined),
                                    IF Truthy(a.clientKey)
                                      THEN [t |-> "params",
                                            v |-> <<<<"client_key", a.clientKey>>>>]
                                      ELSE Undefined),
                returns |-> "data"]
          [] name = "attach" ->
               [options |->
                  HttpPost(buildPath(basePath, a.id, Str(<<"attach">>)),
                           wrapBody(ObjectLiteral(
                             << <<"paymentMethod", Get(params, "paymentMethod")>>,
                                <<"clientKey", Get(params, "clientKey")>>,
                                <<"returnUrl", Get(params, "returnUrl")>> >>))),
                returns |-> "data"]

\* Seeded fault: the card details go through the generic key transform.
CardDetailsGeneric(details) == toSnakeCase(details)

\* The details record PaymentMethods.create writes for a card.
CardDetails(details) ==
    ObjectLiteral(<< <<"card_number", GetEntry(details, "cardNumber")>>,
                     <<"exp_month", GetEntry(details, "expMonth")>>,
                     <<"exp_year", GetEntry(details, "expYear")>>,
                     <<"cvc", GetEntry(details, "cvc")>> >>)

\* Seeded fault: details are sent whatever the type.
PaymentMethodAttributesAnyType(params) ==
    LET attributes == ObjectLiteral(<< <<"type", Get(params, "type")>>,
                                       <<"billing", Get(params, "billing")>>,
                                       <<"metadata", Get(params, "metadata")>> >>)
    IN  IF Truthy(Get(params, "details"))
          THEN Rec(SetEntry(attributes.e, KeyChars.details,
                            CardDetails(Get(params, "details"))))
          ELSE attributes

\* The attributes PaymentMethods.create sends: type, billing and metadata as
\* given, and details only for a card.
PaymentMethodAttributes(params) ==
    LET attributes == ObjectLiteral(<< <<"type", Get(params, "type")>>,
                                       <<"billing", Get(params, "billing")>>,
                                       <<"metadata", Get(params, "metadata")>> >>)
    IN  IF Truthy(Get(params, "details")) /\ Get(params, "type") = Str(<<"card">>)
          THEN Rec(SetEntry(attributes.e, KeyChars.details,
                            CardDetails(Get(params, "details"))))
          ELSE attributes

PaymentMethods(name, a) ==
    LET basePath == BasePath.paymentMethods
        params == a.params
    IN  CASE name = "create" ->
               [options |-> HttpPost(buildPath(basePath, Undefined, Undefined),
                                     Envelope(PaymentMethodAttributes(params))),
                returns |-> "data"]
          [] name = "retrieve" ->
               [options |-> HttpGet(buildPath(basePath, a.id, Undefined), Undefined),
                returns |-> "data"]
          [] name = "update" ->
               [options |->
                  HttpPatch(buildPath(basePath, a.id, Undefined),
                            wrapBody(ObjectLiteral(
                              << <<"billing", Get(params, "billing")>>,
                                 <<"metadata", Get(params, "metadata")>> >>))),
                returns |-> "data"]

\* The record CheckoutSessions.create maps a line item to.
LineItem(item) ==
    ObjectLiteral(<< <<"amount", GetEntry(item, "amount")>>,
                     <<"currency", Coalesce(GetEntry(item, "currency"), Str(<<"PHP">>))>>,
                     <<"description", GetEntry(item, "description")>>,
                     <<"images", GetEntry(item, "images")>>,
                     <<"name", GetEntry(item, "name")>>,
                     <<"quantity", GetEntry(item, "quantity")>> >>)

\* The attributes CheckoutSessions.create sends, for params that hold the
\* lineItems sequence their type requires.
CheckoutSessionAttributes(params) ==
    LET items == Get(params, "lineItems").v
        lineItems == List([i \in 1..Len(items) |-> LineItem(items[i])])
    IN  ObjectLiteral(
          << <<"line_items", lineItems>>,
             <<"payment_method_types", Get(params, "paymentMethodTypes")>>,
             <<"success_url", Get(params, "successUrl")>>,
             <<"cancel_url", Get(params, "cancelUrl")>>,
             <<"description", Get(params, "description")>>,
             <<"billing", Get(params, "billing")>>,
             <<"billing_information_fields_editable",
               Get(params, "billingInformationFieldsEditable")>>,
             <<"send_email_receipt", Get(params, "sendEmailReceipt")>>,
             <<"show_description", Get(params, "showDescription")>>,
             <<"show_line_items", Get(params, "showLineItems")>>,
             <<"reference_number", Get(params, "referenceNumber")>>,
             <<"metadata", Get(params, "metadata")>> >>)

CheckoutSessions(name, a) ==
    LET basePath == BasePath.checkoutSessions
        params == a.params
    IN  CASE name = "create" ->
               [options |-> HttpPost(buildPath(basePath, Undefined, Undefined),
                                     Envelope(CheckoutSessionAttributes(params))),
                returns |-> "data"]
          [] name = "retrieve" ->
               [options |-> HttpGet(buildPath(basePath, a.id, Undefined), Undefined),
                returns |-> "data"]
          [] name = "expire" ->
               [options |-> HttpPost(buildPath(basePath, a.id, Str(<<"expire">>)),
                                     Undefined),
                returns |-> "data"]

Payments(name, a) ==
    LET basePath == BasePath.payments
    IN  CASE name = "retrieve" ->
               [options |-> HttpGet(buildPath(basePath, a.id, Undefined), Undefined),
                returns |-> "data"]
          [] name = "list" ->
               [options |-> HttpGet(buildPath(basePath, Undefined, Undefined),
                                    ListQuery(a.params,
                                              << <<"after", "after">>,
                                                 <<"before", "before">>,
                                                 <<"limit", "limit">> >>)),
                returns |-> "list"]

Customers(name, a) ==
    LET basePath == BasePath.customers
        params == a.params
    IN  CASE name = "create" ->
               [options |->
                  HttpPost(buildPath(basePath, Undefined, Undefined),
                           wrapBody(ObjectLiteral(
                             << <<"email", Get(params, "email")>>,
                                <<"firstName", Get(params, "firstName")>>,
                                <<"lastName", Get(params, "lastName")>>,
                                <<"phone", Get(params, "phone")>>,
                                <<"defaultPaymentMethodId",
                                  Get(params, "defaultPaymentMethodId")>>,
                                <<"metadata", Get(params, "metadata")>> >>))),
                returns |-> "data"]
          [] name = "retrieve" ->
               [options |-> HttpGet(buildPath(basePath, a.id, Undefined), Undefined),
                returns |-> "data"]
          [] name = "list" ->
               [options |-> HttpGet(buildPath(basePath, Undefined, Undefined),
                                    ListQuery(a.params,
                                              << <<"after", "after">>,
                                                 <<"before", "before">>,
                                                 <<"limit", "limit">>,
                                                 <<"email", "email">>,
                                                 <<"phone", "phone">> >>)),
                returns |-> "list"]
          [] name = "update" ->
               [options |->
                  HttpPatch(buildPath(basePath, a.id, Undefined),
                            wrapBody(ObjectLiteral(
                              << <<"email", Get(params, "email")>>,
                                 <<"firstName", Get(params, "firstName")>>,
                                 <<"lastName", Get(params, "lastName")>>,
                                 <<"phone", Get(params, "phone")>>,
                                 <<"defaultPaymentMethodId",
                                   Get(params, "defaultPaymentMethodId")>>,
                                 <<"defaultDevice", Get(params, "defaultDevice")>>,
                                 <<"metadata", Get(params, "metadata")>> >>))),
                returns |-> "data"]
          [] name = "delete" ->
               [options |-> HttpDelete(buildPath(basePath, a.id, Undefined)),
                returns |-> "data"]
          [] name = "getPaymentMethods" ->
               [options |-> HttpGet(buildPath(basePath, a.id, Str(<<"payment_methods">>)),
                                    Undefined),
                returns |-> "data"]
          [] name = "deletePaymentMethod" ->
               [options |-> HttpDelete(
                               buildPath(basePath, a.id,
                                         Str(<<"payment_methods/">> \o a.paymentMethodId.v))),
                returns |-> "data"]

Refunds(name, a) ==
    LET basePath == BasePath.refunds
        params == a.params
    IN  CASE name = "create" ->
               [options |->
                  HttpPost(buildPath(basePath, Undefined, Undefined),
                           wrapBody(ObjectLiteral(
                             << <<"amount", Get(params, "amount")>>,
                                <<"paymentId", Get(params, "paymentId")>>,
                                <<"reason", Get(params, "reason")>>,
                                <<"notes", Get(params, "notes")>>,
                                <<"metadata", Get(params, "metadata")>> >>))),
                returns |-> "data"]
          [] name = "retrieve" ->
               [options |-> HttpGet(buildPath(basePath, a.id, Undefined), Undefined),
                returns |-> "data"]
          [] name = "list" ->
               [options |-> HttpGet(buildPath(basePath, Undefined, Undefined),
                                    ListQuery(a.params,
                                              << <<"after", "after">>,
                                                 <<"before", "before">>,
                                                 <<"limit", "limit">>,
                                                 <<"paymentId", "payment_id">> >>)),
                returns |-> "list"]

Webhooks(name, a) ==
    LET basePath == BasePath.webhooks
        params == a.params
    IN  CASE name = "create" ->
               [options |->
                  HttpPost(buildPath(basePath, Undefined, Undefined),
                           wrapBody(ObjectLiteral(
                             << <<"url", Get(params, "url")>>,
                                <<"events", Get(params, "events")>> >>))),
                returns |-> "data"]
          [] name = "retrieve" ->
               [options |-> HttpGet(buildPath(basePath, a.id, Undefined), Undefined),
                returns |-> "data"]
          [] name = "list" ->
               [options |-> HttpGet(buildPath(basePath, Undefined, Undefined), Undefined),
                returns |-> "list"]
          [] name = "update" ->
               [options |->
                  HttpPatch(buildPath(basePath, a.id, Undefined),
                            wrapBody(ObjectLiteral(
                              << <<"url", Get(params, "url")>>,
                                 <<"events", Get(params, "events")>> >>))),
                returns |-> "data"]
          [] name = "enable" ->
               [options |-> HttpPost(buildPath(basePath, a.id, Str(<<"enable">>)),
                                     Undefined),
                returns |-> "data"]
          [] name = "disable" ->
               [options |-> HttpPost(buildPath(basePath, a.id, Str(<<"disable">>)),
                                     Undefined),
                returns |-> "data"]

OpNames ==
    [paymentIntents |-> {"create", "retrieve", "attach"},
     paymentMethods |-> {"create", "retrieve", "update"},
     payments |-> {"retrieve", "list"},
     customers |-> {"create", "retrieve", "list", "update", "delete",
                    "getPaymentMethods", "deletePaymentMethod"},
     refunds |-> {"create", "retrieve", "list"},
     webhooks |-> {"create", "retrieve", "list", "update", "enable", "disable"},
     checkoutSessions |-> {"create", "retrieve", "expire"}]

Ops == UNION { {[res |-> r, name |-> n] : n \in OpNames[r]} : r \in Resources }

Operation(o, a) ==
    CASE o.res = "paymentIntents" -> PaymentIntents(o.name, a)
      [] o.res = "paymentMethods" -> PaymentMethods(o.name, a)
      [] o.res = "payments" -> Payments(o.name, a)
      [] o.res = "customers" -> Customers(o.name, a)
      [] o.res = "refunds" -> Refunds(o.name, a)
      [] o.res = "webhooks" -> Webhooks(o.name, a)
      [] o.res = "checkoutSessions" -> CheckoutSessions(o.name, a)

\* How an operation settles once its request has: an error of the request
\* propagates, a returned body is unwrapped.
OperationSettle(returns, result) ==
    IF result.kind # "value" THEN result
    ELSE IF returns = "list" THEN UnwrapList(result.value)
    ELSE UnwrapData(result.value)

--------------------------------------------------------------------------
(* The remote side and the caller's inputs *)

\* Statuses a response carries: both ends of the success range, and outside it.
Statuses == {200, 299, 300, 404}

Resource(id, type) ==
    Obj([id |-> Str(<<id>>), type |-> Str(<<type>>), attributes |-> Obj(EmptyFields)])

ErrorDetail(code, detail) == Obj([code |-> Str(<<code>>), detail |-> Str(<<detail>>)])

\* Parsed bodies the remote side sends: a single-resource envelope, two pages of
\* a list (not in id order), error bodies with two details, with a detail that
\* has only a code, with an empty list, and an object with neither data nor errors.
JsonBodies ==
    { Obj([data |-> Resource("id_1", "payment")]),
      Obj([data |-> List(<<Resource("id_3", "payment"), Resource("id_1", "payment")>>),
           has_more |-> Bool(TRUE)]),
      Obj([data |-> List(<<Resource("id_2", "payment")>>), has_more |-> Bool(FALSE)]),
      Obj([errors |-> List(<<ErrorDetail("parameter_invalid", "amount is required"),
                             ErrorDetail("parameter_below_minimum", "amount too low")>>)]),
      Obj([errors |-> List(<<Obj([code |-> Str(<<"resource_not_found">>)])>>)]),
      Obj([errors |-> List(<<>>)]),
      Obj(EmptyFields) }

\* Outcomes of `await response.text()`.
Reads ==
    {[kind |-> "rejects"]}
    \cup {[kind |-> "text", text |-> t] :
             t \in {EmptyText, GarbageText} \cup {JsonText(v) : v \in JsonBodies}}

\* What fetch rejects with when the transport cannot complete the call.
Causes == {[t |-> "error", name |-> "TypeError"], [t |-> "error", name |-> "AbortError"]}

\* Pagination parameters a caller passes to a list operation.
ListParamInputs ==
    { Undefined, Obj([after |-> Str(<<"id_1">>), limit |-> Num(0)]) }

\* The operations that take a parameters object and send it as their body.
BodyOps == { o \in Ops : o.name \in {"create", "update", "attach"} }

\* For each such operation, a parameters object with what its type requires
\* and nothing else.
RequiredParams(o) ==
    CASE o = [res |-> "paymentIntents", name |-> "create"] ->
           Obj([amount |-> Num(10000),
                paymentMethodAllowed |-> List(<<Str(<<"card">>), Str(<<"gcash">>)>>)])
      [] o = [res |-> "paymentIntents", name |-> "attach"] ->
           Obj([paymentMethod |-> Str(<<"pm_1">>)])
      [] o = [res |-> "paymentMethods", name |-> "create"] ->
           Obj([type |-> Str(<<"gcash">>)])
      [] o = [res |-> "checkoutSessions", name |-> "create"] ->
           Obj([lineItems |->
                  List(<<Rec(<< <<KeyChars.amount, Num(99900)>>,
                                <<KeyChars.name, Str(<<"Premium Plan">>)>>,
                                <<KeyChars.quantity, Num(1)>> >>)>>),
                paymentMethodTypes |-> List(<<Str(<<"card">>)>>),
                successUrl |-> Str(<<"https://yoursite.com/success">>)])
      [] o = [res |-> "refunds", name |-> "create"] ->
           Obj([amount |-> Num(5000), paymentId |-> Str(<<"pay_1">>),
                reason |-> Str(<<"requested_by_customer">>)])
      [] o = [res |-> "webhooks", name |-> "create"] ->
           Obj([url |-> Str(<<"https://yoursite.com/webhooks">>),
                events |-> List(<<Str(<<"payment.paid">>)>>)])
      [] OTHER -> Obj(EmptyFields)

\* The arguments of a call of operation o.
ArgsFor(o) ==
    [id : {Str(<<"id_1">>)},
     paymentMethodId : {Str(<<"pm_1">>)},
     clientKey : IF o.res = "paymentIntents" /\ o.name = "retrieve"
                   THEN {Undefined, Str(<<"ck_1">>)} ELSE {Undefined},
     params : IF o.name = "list" /\ o.res # "webhooks" THEN ListParamInputs
              ELSE IF o \in BodyOps THEN {RequiredParams(o)}
              ELSE {Undefined}]

NoCall == [api |-> "none"]

\* No stubbed remote side; nothing kept.
None == [t |-> "none"]

--------------------------------------------------------------------------
(* The caller: one operation at a time, awaited to its end *)

\* await client.<resource>.<operation>(...): the resource client builds its
\* request and HttpClient.request calls fetch.
Call(c, o, a, runtime) ==
    /\ pc = "idle"
    /\ c \in 1..Len(clients)
    /\ o.res \in clients[c].resources
    /\ \E operation \in {Operation(o, a)} :
          inflight' = [client |-> c, op |-> o, args |-> a,
                       returns |-> operation.returns,
                       fetchArgs |-> FetchArgs(clients[c].http.config, runtime,
                                               operation.options),
                       response |-> Undefined]
    /\ fetches' = 1
    /\ pc' = "fetching"
    /\ last' = NoCall
    /\ UNCHANGED <<instance, clients, aside>>

\* Seeded fault: a rejected fetch is tried once more before giving up.
FetchRejectRetries(cause) ==
    /\ pc = "fetching"
    /\ IF fetches < 2
         THEN /\ fetches' = fetches + 1
              /\ UNCHANGED <<pc, inflight, last>>
         ELSE /\ last' = [api |-> "operation", op |-> inflight.op,
                          args |-> inflight.args, cause |-> cause,
                          outcome |-> OperationSettle(
                              inflight.returns,
                              PayMongoNetworkError(
                                  "Network error while communicating with PayMongo API",
                                  cause))]
              /\ pc' = "settled"
              /\ inflight' = Undefined
              /\ UNCHANGED fetches
    /\ UNCHANGED <<instance, clients, aside>>

\* fetch rejects: request throws PayMongoNetworkError, which the operation
\* passes on to its caller.
FetchReject(cause) ==
    /\ pc = "fetching"
    /\ last' = [api |-> "operation", op |-> inflight.op, args |-> inflight.args,
                cause |-> cause,
                outcome |-> OperationSettle(
                    inflight.returns,
                    PayMongoNetworkError(
                        "Network error while communicating with PayMongo API", cause))]
    /\ pc' = "settled"
    /\ inflight' = Undefined
    /\ UNCHANGED <<instance, clients, fetches, aside>>

\* fetch resolves with a response: request goes on to await response.text().
FetchResolve(status) ==
    /\ pc = "fetching"
    /\ inflight' = [inflight EXCEPT !.response = [t |-> "response", status |-> status]]
    /\ pc' = "reading"
    /\ UNCHANGED <<instance, clients, fetches, last, aside>>

\* response.text() settles: request parses the body and returns or throws, and
\* the operation unwraps what request returned.
ReadBody(read) ==
    /\ pc = "reading"
    /\ LET request == RequestSettle(inflight.response.status, read)
       IN  last' = [api |-> "operation", op |-> inflight.op, args |-> inflight.args,
                    status |-> inflight.response.status, read |-> read,
                    request |-> request,
                    outcome |-> OperationSettle(inflight.returns, request)]
    /\ pc' = "settled"
    /\ inflight' = Undefined
    /\ UNCHANGED <<instance, clients, fetches, aside>>

\* The caller resumes with the result of its call.
Continue ==
    /\ pc = "settled"
    /\ pc' = "idle"
    /\ last' = NoCall
    /\ fetches' = 0
    /\ UNCHANGED <<instance, clients, inflight, aside>>

\* The facade alone: constructions and the singleton accessor, from a start
\* with nothing constructed.
InitFacade ==
    /\ instance = 0
    /\ clients = <<>>
    /\ pc = "idle"
    /\ inflight = Undefined
    /\ fetches = 0
    /\ last = NoCall
    /\ callers = <<>>
    /\ remote = None
    /\ kept = None

NextFacade ==
    \/ \E config \in Configs : Construct(config)
    \/ \E config \in Configs, forceNew \in BOOLEAN : GetInstance(config, forceNew)
    \/ ResetInstance
    \/ Continue

SpecFacade == InitFacade /\ [][NextFacade]_vars

\* The clients new PayMongo(config) yields over all configurations.
Constructed ==
    { PayMongoNew(config).value :
        config \in {cfg \in Configs : PayMongoNew(cfg).kind = "value"} }

\* The operations of constructed clients: from one to MaxClients clients,
\* constructed directly, none stored as the singleton.
Init ==
    /\ instance = 0
    /\ clients \in UNION { [1..n -> Constructed] : n \in 1..MaxClients }
    /\ pc = "idle"
    /\ inflight = Undefined
    /\ fetches = 0
    /\ last = NoCall
    /\ callers = <<>>
    /\ remote = None
    /\ kept = None

Next ==
    \/ \E c \in 1..MaxClients, o \in Ops, runtime \in Runtimes :
          \E a \in ArgsFor(o) : Call(c, o, a, runtime)
    \/ \E cause \in Causes : FetchReject(cause)
    \/ \E status \in Statuses : FetchResolve(status)
    \/ \E read \in Reads : ReadBody(read)
    \/ Continue

Spec == Init /\ [][Next]_vars

--------------------------------------------------------------------------
(* Concurrent start-up: several callers, each an async function that awaits *)
(* its own preparation and then calls PayMongo.getInstance(config)          *)

\* How many callers start up concurrently.
MaxCallers == 2

\* The configurations the concurrent callers pass: secret and public mode, with
\* and without a base URL of their own, and one without any key.
RaceConfigs ==
    { [publicKey |-> Undefined, secretKey |-> Str(<<"s", "k", "_", "a", "b">>),
       baseUrl |-> Undefined],
      [publicKey |-> Str(<<"p", "k", "_", "a">>), secretKey |-> Undefined,
       baseUrl |-> Undefined],
      [publicKey |-> Str(<<"p", "k", "_", "a">>),
       secretKey |-> Str(<<"s", "k", "_", "a", "b">>),
       baseUrl |-> Str(<<"https://stub.test", "/v9">>)],
      [publicKey |-> Undefined, secretKey |-> Str(<<"s", "k", "_", "a", "b">>),
       baseUrl |-> Str(<<"https://stub.test", "/v9">>)],
      [publicKey |-> Undefined, secretKey |-> Undefined, baseUrl |-> Undefined] }

\* The caller's await settles: it resumes, about to call getInstance.  This is
\* where the callers' executions interleave.
CallerResume(k) ==
    /\ k \in 1..Len(callers)
    /\ callers[k].pc = "start"
    /\ callers' = [callers EXCEPT ![k].pc = "ready"]
    /\ UNCHANGED <<instance, clients, pc, inflight, fetches, last, remote, kept>>

\* Seeded fault: the constructed instance is returned but not stored.
CallerGetInstanceNotStored(k) ==
    /\ k \in 1..Len(callers)
    /\ callers[k].pc = "ready"
    /\ IF instance = 0
         THEN LET made == PayMongoNew(callers[k].config)
              IN  /\ clients' = IF made.kind = "value"
                                  THEN Append(clients, made.value) ELSE clients
                  /\ instance' = instance
                  /\ callers' = [callers EXCEPT
                                   ![k].pc = "done",
                                   ![k].result = IF made.kind = "value"
                                                   THEN Returned(Ref(Len(clients) + 1))
                                                   ELSE made]
         ELSE /\ callers' = [callers EXCEPT ![k].pc = "done",
                                            ![k].result = Returned(Ref(instance))]
              /\ UNCHANGED <<clients, instance>>
    /\ UNCHANGED <<pc, inflight, fetches, last, remote, kept>>

\* The caller runs PayMongo.getInstance(config), without forceNew, from its
\* first statement to its return: the function and the constructor it calls
\* contain no await, so the runtime runs them to completion before any other
\* caller's code.
CallerGetInstance(k) ==
    /\ k \in 1..Len(callers)
    /\ callers[k].pc = "ready"
    /\ IF instance = 0
         THEN LET made == PayMongoNew(callers[k].config)
              IN  /\ clients' = IF made.kind = "value"
                                  THEN Append(clients, made.value) ELSE clients
                  /\ instance' = IF made.kind = "value"
                                   THEN Len(clients) + 1 ELSE instance
                  /\ callers' = [callers EXCEPT
                                   ![k].pc = "done",
                                   ![k].result = IF made.kind = "value"
                                                   THEN Returned(Ref(Len(clients) + 1))
                                                   ELSE made]
         ELSE /\ callers' = [callers EXCEPT ![k].pc = "done",
                                            ![k].result = Returned(Ref(instance))]
              /\ UNCHANGED <<clients, instance>>
    /\ UNCHANGED <<pc, inflight, fetches, last, remote, kept>>

InitRace ==
    /\ instance = 0
    /\ clients = <<>>
    /\ pc = "idle"
    /\ inflight = Undefined
    /\ fetches = 0
    /\ last = NoCall
    /\ callers \in [1..MaxCallers ->
                      [pc : {"start"}, config : RaceConfigs, result : {Undefined}]]
    /\ remote = None
    /\ kept = None

NextRace ==
    \/ \E k \in 1..MaxCallers : CallerResume(k)
    \/ \E k \in 1..MaxCallers : CallerGetInstance(k)

SpecRace == InitRace /\ [][NextRace]_vars

--------------------------------------------------------------------------
(* The transport's query building and the key transform on their own: a     *)
(* caller applies each to an argument and resumes with the result           *)

\* How many entries an argument object has at most.
MaxEntries == 2

\* The sequences of at most MaxEntries entries <<key, value>> with distinct keys.
EntriesOver(keys, values) ==
    UNION { { e \in [1..n -> keys \X values] :
                 \A i \in 1..n, j \in 1..n : i # j => e[i][1] # e[j][1] } :
            n \in 0..MaxEntries }

\* Values of query parameters, of each type RequestOptions.params allows:
\* undefined, strings (one empty), numbers (one zero) and a boolean.
ParamValueInputs ==
    { Undefined, Str(<<"cus_1">>), Str(<<>>), Num(0), Num(25), Bool(FALSE) }

ParamsInputs ==
    { Undefined }
    \cup { [t |-> "params", v |-> e] :
             e \in EntriesOver({"after", "limit", "email"}, ParamValueInputs) }

\* Keys of records: one in camel case, the key it is rewritten to, already
\* underscore-joined, and one of a single word.
RecKeyInputs == { <<"a", "B">>, <<"a", "_", "b">>, <<"c">> }

\* Values without records inside: absent ones, a string, and a sequence that
\* holds a record with a camel-case key.
LeafInputs ==
    { Undefined, Null, Str(<<"x">>),
      List(<<Rec(<< <<<<"a", "B">>, Str(<<"x">>)>> >>)>>) }

\* Records of leaves, and records nesting one of those.
NestedInputs ==
    LET inner == { Rec(<<>>) } \cup { Rec(<< <<k, v>> >>) : k \in RecKeyInputs,
                                                          v \in LeafInputs }
    IN  inner \cup { Rec(<< <<<<"a", "B">>, r>> >>) :
                       r \in { q \in inner : q.e = <<>> \/ q.e[1][1] = <<"a", "B">> } }

RecInputs == { Rec(e) : e \in EntriesOver(RecKeyInputs, LeafInputs \cup NestedInputs) }

\* http.get(path, params), up to the URL it builds
ApplyBuildUrl(config, params) ==
    /\ pc = "idle"
    /\ last' = [api |-> "buildUrl", params |-> params,
                outcome |-> buildUrl(config, <<"/customers">>, params)]
    /\ pc' = "settled"
    /\ UNCHANGED <<instance, clients, inflight, fetches, aside>>

\* toSnakeCase(obj), and toSnakeCase of what it returned
ApplyToSnakeCase(obj) ==
    /\ pc = "idle"
    /\ last' = [api |-> "toSnakeCase", obj |-> obj,
                outcome |-> toSnakeCase(obj),
                again |-> toSnakeCase(toSnakeCase(obj))]
    /\ pc' = "settled"
    /\ UNCHANGED <<instance, clients, inflight, fetches, aside>>

\* An id or a suffix as buildPath may receive it: left out, empty, or one of
\* two texts.
PathPartInputs ==
    { Undefined, Str(<<>>), Str(<<"id_1">>), Str(<<"payment_methods">>) }

\* this.buildPath(id, suffix) of the resource client res
ApplyBuildPath(res, id, suffix) ==
    /\ pc = "idle"
    /\ last' = [api |-> "buildPath", res |-> res, id |-> id, suffix |-> suffix,
                outcome |-> buildPath(BasePath[res], id, suffix)]
    /\ pc' = "settled"
    /\ UNCHANGED <<instance, clients, inflight, fetches, aside>>

\* The options request may receive: any method with no body, an empty object
\* or an enveloped one, and what each operation hands to get, post, patch or
\* delete.
RequestInputs ==
    { [op |-> NoCall,
       options |-> [method |-> method, path |-> <<"/customers">>, body |-> body,
                    params |-> Undefined]] :
        method \in {"GET", "POST", "PATCH", "DELETE"},
        body \in {Undefined, Obj(EmptyFields), Envelope(Rec(<<>>))} }
    \cup UNION { { [op |-> o, options |-> Operation(o, a).options] : a \in ArgsFor(o) } :
                   o \in Ops }

\* http.request(options), up to the argument it hands to fetch
ApplyRequest(config, runtime, input) ==
    /\ pc = "idle"
    /\ last' = [api |-> "request", op |-> input.op, options |-> input.options,
                outcome |-> FetchArgs(config, runtime, input.options)]
    /\ pc' = "settled"
    /\ UNCHANGED <<instance, clients, inflight, fetches, aside>>

NextPure ==
    \/ /\ pc = "idle"
       /\ \E c \in 1..Len(clients), params \in ParamsInputs :
             ApplyBuildUrl(clients[c].http.config, params)
    \/ /\ pc = "idle"
       /\ \E obj \in RecInputs : ApplyToSnakeCase(obj)
    \/ /\ pc = "idle"
       /\ \E res \in Resources, id \in PathPartInputs, suffix \in PathPartInputs :
             ApplyBuildPath(res, id, suffix)
    \/ /\ pc = "idle"
       /\ \E input \in RequestInputs, runtime \in Runtimes :
             ApplyRequest(clients[1].http.config, runtime, input)
    \/ Continue

\* From one secret-key client per base URL.
InitPure ==
    /\ instance = 0
    /\ clients \in { <<a, b>> : a \in { c \in Constructed : c.config.baseUrl = DEFAULT_BASE_URL
                                                            /\ ~c.config.isPublicKey },
                                b \in { c \in Constructed : c.config.baseUrl # DEFAULT_BASE_URL
                                                            /\ ~c.config.isPublicKey } }
    /\ pc = "idle"
    /\ inflight = Undefined
    /\ fetches = 0
    /\ last = NoCall
    /\ callers = <<>>
    /\ remote = None
    /\ kept = None

SpecPure == InitPure /\ [][NextPure]_vars

--------------------------------------------------------------------------
(* A stubbed remote side in place of fetch: it stores the payment intents   *)
(* it creates and serves a fixed ordered collection in pages, by cursor     *)

\* How many payment intents the caller creates.
MaxStored == 2

\* How many items the stub's collection holds at most.
MaxItems == 4

\* The stub's page size when the request names no limit.
StubPageSize == 2

\* The ids of the stub's collection, in the order the stub serves them.
StubOrder == <<"id_3", "id_1", "id_4", "id_2", "id_5">>

StubType ==
    [paymentIntents |-> "payment_intent", payments |-> "payment",
     customers |-> "customer"]

\* The value of the first pair named key in a query, undefined when none is.
QueryValue(query, key) ==
    IF \E i \in 1..Len(query) : query[i][1] = key
      THEN Str(query[CHOOSE i \in 1..Len(query) :
                        /\ query[i][1] = key
                        /\ \A j \in 1..(i - 1) : query[j][1] # key][2])
      ELSE Undefined

NotFound ==
    [status |-> 404,
     body |-> Obj([errors |-> List(<<ErrorDetail("resource_not_found", "No such resource")>>)])]

\* The page a cursor and a limit select from the collection.
StubPage(collection, type, after, limit) ==
    LET start == IF after = Undefined THEN 0
                 ELSE CHOOSE i \in 1..Len(collection) : <<collection[i]>> = after.v
        size == IF limit = Undefined THEN StubPageSize
                ELSE CHOOSE n \in 1..(MaxItems + 1) : <<ToString(n)>> = limit.v
        end == IF start + size < Len(collection) THEN start + size ELSE Len(collection)
    IN  [status |-> 200,
         body |-> Obj([data |-> List([i \in 1..(end - start) |->
                                        Resource(collection[start + i], type)]),
                       has_more |-> Bool(end < Len(collection))])]

\* What the stub answers to a request, and what it stores afterwards.
StubAnswer(stub, request) ==
    LET path == request.url.path
        res == IF \E r \in DOMAIN StubType : BasePath[r] = path[1]
                 THEN CHOOSE r \in DOMAIN StubType : BasePath[r] = path[1]
                 ELSE "none"
        id == Str(SubSeq(path, 3, Len(path)))
        after == QueryValue(request.url.query, "after")
        limit == QueryValue(request.url.query, "limit")
    IN  CASE request.method = "POST" /\ path = <<BasePath.paymentIntents>> ->
               LET created == [id |-> Str(<<"pi_" \o ToString(Len(stub.store) + 1)>>),
                               type |-> Str(<<StubType.paymentIntents>>),
                               attributes |-> request.body.v.f.data.f.attributes]
               IN  [status |-> 200, body |-> Obj([data |-> Obj(created)]),
                    store |-> Append(stub.store, Obj(created))]
          [] request.method = "GET" /\ res = "paymentIntents" /\ Len(path) >= 3 ->
               IF \E i \in 1..Len(stub.store) : stub.store[i].f.id = id
                 THEN [status |-> 200,
                       body |-> Obj([data |-> stub.store[
                                       CHOOSE i \in 1..Len(stub.store) :
                                          stub.store[i].f.id = id]]),
                       store |-> stub.store]
                 ELSE NotFound @@ [store |-> stub.store]
          [] request.method = "GET" /\ res \in {"payments", "customers"}
               /\ Len(path) = 1
               /\ (after = Undefined
                   \/ \E i \in 1..Len(stub.collection) : <<stub.collection[i]>> = after.v)
               /\ (limit = Undefined
                   \/ \E n \in 1..(MaxItems + 1) : <<ToString(n)>> = limit.v) ->
               StubPage(stub.collection, StubType[res], after, limit)
                 @@ [store |-> stub.store]
          [] OTHER -> NotFound @@ [store |-> stub.store]

\* The operations the caller runs against the stub.
StubOps ==
    { [res |-> "paymentIntents", name |-> "create"],
      [res |-> "paymentIntents", name |-> "retrieve"],
      [res |-> "payments", name |-> "list"],
      [res |-> "customers", name |-> "list"] }

\* The id of the last item of the page the caller kept of resource res.
LastIdOf(res) ==
    IF kept.page # None /\ kept.page.res = res /\ kept.page.items # <<>>
      THEN {kept.page.items[Len(kept.page.items)].f.id}
      ELSE {}

\* The arguments of the caller's calls: retrieve with the id of a payment
\* intent it got from create, or with an id never created; list without
\* parameters, with a limit, and with after set to the last id of the page it
\* kept.
StubArgsFor(o) ==
    [id : IF o.name = "retrieve"
            THEN {r.f.id : r \in kept.created} \cup {Str(<<"pi_0">>)}
            ELSE {Undefined},
     paymentMethodId : {Undefined},
     clientKey : IF o.name = "retrieve" THEN {Undefined, Str(<<"ck_1">>)} ELSE {Undefined},
     params : IF o.name = "list"
                THEN {Undefined, Obj([limit |-> Num(1)])}
                     \cup {Obj([after |-> id]) : id \in LastIdOf(o.res)}
                     \cup {Obj([after |-> id, limit |-> Num(1)]) : id \in LastIdOf(o.res)}
              ELSE IF o \in BodyOps THEN {RequiredParams(o)}
              ELSE {Undefined}]

\* fetch reaches the stub, which answers the request.
StubRespond ==
    /\ pc = "fetching"
    /\ LET answer == StubAnswer(remote, inflight.fetchArgs)
       IN  /\ inflight' = [inflight EXCEPT
                             !.response = [t |-> "response", status |-> answer.status,
                                           body |-> JsonText(answer.body)]]
           /\ remote' = [remote EXCEPT !.store = answer.store]
    /\ pc' = "reading"
    /\ UNCHANGED <<instance, clients, fetches, last, callers, kept>>

\* response.text() yields the stub's body: request parses it and returns or
\* throws, the operation unwraps it, and the caller keeps what create and list
\* returned.
StubDeliver ==
    /\ pc = "reading"
    /\ LET read == [kind |-> "text", text |-> inflight.response.body]
           outcome == OperationSettle(inflight.returns,
                                      RequestSettle(inflight.response.status, read))
           returned == outcome.kind = "value" /\ outcome.value.t = "obj"
       IN  /\ last' = [api |-> "operation", op |-> inflight.op, args |-> inflight.args,
                       status |-> inflight.response.status, read |-> read,
                       request |-> [method |-> inflight.fetchArgs.method,
                                    path |-> inflight.fetchArgs.url.path,
                                    query |-> inflight.fetchArgs.url.query],
                       outcome |-> outcome]
           /\ kept' = IF returned /\ inflight.op.name = "create"
                        THEN [kept EXCEPT !.created = @ \cup {outcome.value}]
                      ELSE IF returned /\ inflight.op.name = "list"
                        THEN [kept EXCEPT
                                !.previous = kept.page,
                                !.page = [res |-> inflight.op.res,
                                          items |-> outcome.value.f.data.v,
                                          hasMore |-> outcome.value.f.hasMore]]
                      ELSE kept
    /\ pc' = "settled"
    /\ inflight' = Undefined
    /\ UNCHANGED <<instance, clients, fetches, callers, remote>>

\* One secret-key client, a stub with nothing stored and a collection of up to MaxItems
\* items, and a caller that has kept nothing yet.
InitStub ==
    /\ instance = 0
    /\ clients \in [1..1 -> { c \in Constructed : ~c.config.isPublicKey }]
    /\ pc = "idle"
    /\ inflight = Undefined
    /\ fetches = 0
    /\ last = NoCall
    /\ callers = <<>>
    /\ remote \in { [store |-> <<>>, collection |-> SubSeq(StubOrder, 1, n)] :
                      n \in 0..MaxItems }
    /\ kept = [created |-> {}, page |-> None, previous |-> None]

NextStub ==
    \/ /\ pc = "idle"
       /\ \E o \in StubOps, runtime \in Runtimes :
             /\ o.name = "create" => Len(remote.store) < MaxStored
             /\ \E a \in StubArgsFor(o) : Call(1, o, a, runtime)
    \/ StubRespond
    \/ StubDeliver
    \/ Continue

SpecStub == InitStub /\ [][NextStub]_vars

--------------------------------------------------------------------------
(* The request bodies: a caller runs the operations that send their         *)
(* parameters, with parameters of every shape their types allow             *)

\* Metadata records (Record<string, string | number | boolean | null>): up to
\* MaxEntries entries, keyed in camel case or by a single word, a value or null.
MetadataInputs ==
    { Undefined }
    \cup { Rec(e) : e \in EntriesOver({KeyChars.orderId, KeyChars.note},
                                       {Str(<<"12345">>), Null}) }

\* Billing details: none, and a record that nests an address and holds
\* properties set to undefined at both depths.
BillingInputs ==
    { Undefined,
      Rec(<< <<KeyChars.name, Str(<<"John Doe">>)>>,
             <<KeyChars.email, Undefined>>,
             <<KeyChars.address,
               Rec(<< <<KeyChars.line1, Str(<<"1 Ayala Ave">>)>>,
                      <<KeyChars.postal_code, Undefined>> >>)>> >>) }

\* Card details: none, the four fields of CardInput, and those with one more.
CardInputs ==
    LET card == << <<KeyChars.cardNumber, Str(<<"4343434343434345">>)>>,
                   <<KeyChars.expMonth, Num(12)>>,
                   <<KeyChars.expYear, Num(2025)>>,
                   <<KeyChars.cvc, Str(<<"123">>)>> >>
    IN  { Undefined, Rec(card), Rec(Append(card, <<KeyChars.name, Str(<<"John Doe">>)>>)) }

\* Line item sequences: one item with only what LineItemInput requires, and
\* two items, the second with a currency and a description.
LineItemsInputs ==
    LET plan == Rec(<< <<KeyChars.amount, Num(99900)>>,
                       <<KeyChars.name, Str(<<"Premium Plan">>)>>,
                       <<KeyChars.quantity, Num(1)>> >>)
        addon == Rec(<< <<KeyChars.name, Str(<<"Add-on">>)>>,
                        <<KeyChars.amount, Num(500)>>,
                        <<KeyChars.currency, Str(<<"USD">>)>>,
                        <<KeyChars.description, Str(<<"Extra seat">>)>>,
                        <<KeyChars.quantity, Num(2)>> >>)
    IN  { List(<<plan>>), List(<<plan, addon>>) }

OptionalText(text) == { Undefined, Str(<<text>>) }

\* The parameters objects a caller passes to operation o.
BodyParamInputs(o) ==
    CASE o = [res |-> "paymentIntents", name |-> "create"] ->
           { Obj([amount |-> Num(10000),
                  paymentMethodAllowed |-> List(<<Str(<<"card">>), Str(<<"gcash">>)>>),
                  currency |-> c, description |-> d, metadata |-> m,
                  paymentMethodOptions |-> p]) :
               c \in OptionalText("USD"), d \in OptionalText("Order #12345"),
               m \in MetadataInputs,
               p \in { Undefined,
                       Rec(<< <<KeyChars.card,
                                Rec(<< <<KeyChars.request_three_d_secure,
                                         Str(<<"any">>)>> >>)>> >>) } }
      [] o = [res |-> "paymentIntents", name |-> "attach"] ->
           { Obj([paymentMethod |-> Str(<<"pm_1">>), clientKey |-> k, returnUrl |-> r]) :
               k \in OptionalText("ck_1"),
               r \in OptionalText("https://yoursite.com/return") }
      [] o = [res |-> "paymentMethods", name |-> "create"] ->
           { Obj([type |-> Str(<<t>>), details |-> d, billing |-> b, metadata |-> m]) :
               t \in {"card", "gcash"}, d \in CardInputs, b \in BillingInputs,
               m \in MetadataInputs }
      [] o = [res |-> "paymentMethods", name |-> "update"] ->
           { Obj([billing |-> b, metadata |-> m]) :
               b \in BillingInputs, m \in MetadataInputs }
      [] o = [res |-> "checkoutSessions", name |-> "create"] ->
           { Obj([lineItems |-> l,
                  paymentMethodTypes |-> List(<<Str(<<"card">>)>>),
                  successUrl |-> Str(<<"https://yoursite.com/success">>),
                  cancelUrl |-> c, billing |-> b, metadata |-> m]) :
               l \in LineItemsInputs, c \in OptionalText("https://yoursite.com/cancel"),
               b \in BillingInputs, m \in MetadataInputs }
      [] o = [res |-> "customers", name |-> "create"] ->
           { Obj([email |-> e, firstName |-> f, metadata |-> m]) :
               e \in OptionalText("john@example.com"), f \in OptionalText("John"),
               m \in MetadataInputs }
      [] o = [res |-> "customers", name |-> "update"] ->
           { Obj([defaultDevice |-> d, metadata |-> m]) :
               d \in OptionalText("phone"), m \in MetadataInputs }
      [] o = [res |-> "refunds", name |-> "create"] ->
           { Obj([amount |-> Num(5000), paymentId |-> Str(<<"pay_1">>),
                  reason |-> Str(<<"requested_by_customer">>),
                  notes |-> n, metadata |-> m]) :
               n \in OptionalText("Customer changed mind"), m \in MetadataInputs }
      [] o = [res |-> "webhooks", name |-> "create"] ->
           { RequiredParams(o) }
      [] o = [res |-> "webhooks", name |-> "update"] ->
           { Obj([url |-> u, events |-> e]) :
               u \in OptionalText("https://yoursite.com/webhooks"),
               e \in { Undefined, List(<<Str(<<"payment.paid">>)>>) } }

BodyArgsFor(o) ==
    [id : {Str(<<"id_1">>)},
     paymentMethodId : {Undefined},
     clientKey : {Undefined},
     params : BodyParamInputs(o)]

\* What the remote side answers while the bodies are examined.
BodyReads ==
    { [kind |-> "text", text |-> JsonText(Obj([data |-> Resource("id_1", "payment")]))] }

\* One secret-key client, nothing called yet.
InitBody ==
    /\ instance = 0
    /\ clients \in [1..1 -> { c \in Constructed : ~c.config.isPublicKey }]
    /\ pc = "idle"
    /\ inflight = Undefined
    /\ fetches = 0
    /\ last = NoCall
    /\ callers = <<>>
    /\ remote = None
    /\ kept = None

NextBody ==
    \/ /\ pc = "idle"
       /\ \E o \in BodyOps, runtime \in Runtimes :
             \E a \in BodyArgsFor(o) : Call(1, o, a, runtime)
    \/ \E cause \in Causes : FetchReject(cause)
    \/ \E status \in {200} : FetchResolve(status)
    \/ \E read \in BodyReads : ReadBody(read)
    \/ Continue

SpecBody == InitBody /\ [][NextBody]_vars

--------------------------------------------------------------------------
(* Properties *)

\* The call just completed constructed, or tried to construct, a PayMongo.
Constructing ==
    /\ pc = "settled"
    /\ last.api \in {"new", "getInstance"}
    /\ last.constructs

\* The call just completed was an operation of a resource client.
Operated == pc = "settled" /\ last.api = "operation"

\* The operation just completed got a response (fetch resolved).
Responded == Operated /\ "status" \in DOMAIN last

\* The parsed body of the response just handled: the value of a JSON text,
\* null for an empty or unparseable text and for a failed read.
LastBody ==
    IF last.read.kind = "text" /\ last.read.text.parses
      THEN last.read.text.value ELSE Null

\* C1: constructing a PayMongo, directly or through getInstance, with neither a
\* publicKey nor a secretKey throws PayMongoConfigError, and neither a client
\* is added nor the singleton changed.
C1_NoKeyFails ==
    (Constructing /\ ~Truthy(last.config.publicKey) /\ ~Truthy(last.config.secretKey))
    => /\ last.outcome.kind = "PayMongoConfigError"
       /\ Len(clients) = last.before.clients
       /\ instance = last.before.instance

C1_Witness ==
    /\ Constructing
    /\ last.api = "getInstance"
    /\ last.config.publicKey = Undefined
    /\ last.config.secretKey = Undefined
    /\ last.outcome.kind = "PayMongoConfigError"
    /\ Len(clients) = 1

\* C2: when a key is given, construction succeeds exactly when the key chosen
\* for the active mode (the secret key if given, else the public key) starts
\* with that mode's prefix, and otherwise throws PayMongoConfigError.
C2_PrefixDecides ==
    (Constructing /\ (Truthy(last.config.publicKey) \/ Truthy(last.config.secretKey)))
    => LET secretMode == Truthy(last.config.secretKey)
           chosen == IF secretMode THEN last.config.secretKey.v
                     ELSE last.config.publicKey.v
           prefix == IF secretMode THEN SecretPrefix ELSE PublicPrefix
           matches == Len(chosen) >= 3 /\ \A i \in 1..3 : chosen[i] = prefix[i]
       IN  /\ matches => last.outcome.kind = "value"
           /\ ~matches => /\ last.outcome.kind = "PayMongoConfigError"
                          /\ Len(clients) = last.before.clients

C2_Witness ==
    /\ Constructing
    /\ last.api = "new"
    /\ last.config.secretKey = Undefined
    /\ last.config.publicKey = Str(<<"s", "k", "_", "a", "b">>)
    /\ last.outcome.kind = "PayMongoConfigError"

--------------------------------------------------------------------------
(* Base64 decoding, to read the Authorization header back *)

RECURSIVE Base64Decode(_)
\* The bytes a padded base64 text stands for.
Base64Decode(chars) ==
    IF chars = <<>> THEN <<>>
    ELSE LET Sextet(c) == IF c = "=" THEN 0 ELSE IndexOf(c, Base64Alphabet) - 1
             s1 == Sextet(chars[1])
             s2 == Sextet(chars[2])
             s3 == Sextet(chars[3])
             s4 == Sextet(chars[4])
             bytes == << s1 * 4 + (s2 \div 16),
                         (s2 % 16) * 16 + (s3 \div 4),
                         (s3 % 4) * 64 + s4 >>
             n == IF chars[3] = "=" THEN 1 ELSE IF chars[4] = "=" THEN 2 ELSE 3
         IN  SubSeq(bytes, 1, n) \o Base64Decode(SubSeq(chars, 5, Len(chars)))

\* A request is with fetch, or its response is being read.
InFlight == pc \in {"fetching", "reading"}

\* The Authorization header of the request in flight is "Basic " followed by
\* a base64 text that decodes to the client's API key and a colon.
AuthHeaderDecodesTo(key) ==
    LET header == inflight.fetchArgs.headers.Authorization
    IN  /\ Len(header) > 6
        /\ SubSeq(header, 1, 6) = <<"B", "a", "s", "i", "c", " ">>
        /\ Len(header) = 6 + 4 * ((Len(key) + 1 + 2) \div 3)
        /\ Base64Decode(SubSeq(header, 7, Len(header)))
             = [i \in 1..(Len(key) + 1) |-> IF i <= Len(key) THEN Ord(key[i]) ELSE Ord(":")]

\* C3: a client constructed with both a secretKey and a publicKey holds the
\* secret key as the API key its transport authenticates with, and reports
\* server-side mode: isServerSide true, isClientSide false.
C3_SecretTakesPrecedence ==
    (Constructing /\ Truthy(last.config.publicKey) /\ Truthy(last.config.secretKey)
       /\ last.outcome.kind = "value")
    => LET client == clients[last.outcome.value.id]
       IN  /\ client.config.apiKey = last.config.secretKey.v
           /\ client.http.config.apiKey = last.config.secretKey.v
           /\ isServerSide(client)
           /\ ~isClientSide(client)

C3_Witness ==
    /\ Constructing
    /\ last.config.publicKey = Str(<<"p", "k", "_", "a">>)
    /\ last.config.secretKey = Str(<<"s", "k", "_", "a", "b">>)
    /\ last.outcome.kind = "value"
    /\ isServerSide(clients[last.outcome.value.id])

\* C4: the request of every operation of every client carries
\* Authorization = "Basic " + base64(apiKey + ":") for the API key of the
\* client that issued it, and no step changes a constructed client's key.
C4_HeaderInv == InFlight => AuthHeaderDecodesTo(clients[inflight.client].config.apiKey)

C4_KeysFrozen ==
    \A i \in 1..Len(clients) :
        /\ i <= Len(clients')
        /\ clients'[i].config.apiKey = clients[i].config.apiKey
        /\ clients'[i].http.config.apiKey = clients[i].config.apiKey

C4_AuthHeader == []C4_HeaderInv /\ [][C4_KeysFrozen]_vars

C4_Witness ==
    /\ pc = "fetching"
    /\ inflight.client = 2
    /\ clients[1].config.apiKey # clients[2].config.apiKey
    /\ inflight.op = [res |-> "webhooks", name |-> "disable"]
    /\ AuthHeaderDecodesTo(clients[2].config.apiKey)

\* C5: a response whose status is outside 200..299 makes the operation fail
\* with a PayMongoError carrying that status, whatever the body is and even
\* when the body cannot be read; a response inside the range never does.
C5_StatusDecidesApiError ==
    Responded
    => LET success == last.status \in 200..299
       IN  /\ ~success => /\ last.outcome.kind = "PayMongoError"
                          /\ last.outcome.status = last.status
           /\ success => last.outcome.kind # "PayMongoError"

C5_Witness ==
    /\ Responded
    /\ last.status = 300
    /\ last.read = [kind |-> "text", text |-> GarbageText]
    /\ last.outcome.kind = "PayMongoError"
    /\ last.outcome.status = 300

\* The error list of a parsed body: its errors field, or empty when absent.
ErrorsOf(body) ==
    IF body.t = "obj" /\ "errors" \in DOMAIN body.f THEN body.f.errors.v ELSE <<>>

\* C6: a PayMongoError takes its message from the detail text of the body's
\* first error detail and its code from that detail's code; with an empty or
\* absent error list the message is "PayMongo API error (status N)" and the
\* code "unknown_error"; errors is the body's whole list (empty when absent)
\* and rawResponse the parsed body.
C6_ErrorFromFirstDetail ==
    (Responded /\ last.outcome.kind = "PayMongoError")
    => LET errs == ErrorsOf(LastBody)
           fallback == Str(<<"PayMongo API error (status ", ToString(last.status), ")">>)
       IN  /\ (errs # <<>> /\ "detail" \in DOMAIN errs[1].f)
                => last.outcome.message = errs[1].f.detail
           /\ (errs # <<>> /\ "code" \in DOMAIN errs[1].f)
                => last.outcome.code = errs[1].f.code
           /\ errs = <<>> => /\ last.outcome.message = fallback
                             /\ last.outcome.code = Str(<<"unknown_error">>)
           /\ last.outcome.errors = List(errs)
           /\ last.outcome.rawResponse = LastBody

C6_Witness ==
    /\ Responded
    /\ last.status = 404
    /\ Len(ErrorsOf(LastBody)) = 2
    /\ last.outcome.kind = "PayMongoError"
    /\ last.outcome.message = Str(<<"amount is required">>)
    /\ last.outcome.code = Str(<<"parameter_invalid">>)

\* C7: when fetch rejects, the operation fails with a PayMongoNetworkError whose
\* originalError is what fetch rejected with, and fetch was called once only.
C7_NetworkErrorWrapsCause ==
    /\ fetches <= 1
    /\ (Operated /\ "cause" \in DOMAIN last)
       => /\ last.outcome.kind = "PayMongoNetworkError"
          /\ last.outcome.originalError = last.cause
          /\ fetches = 1

C7_Witness ==
    /\ Operated
    /\ "cause" \in DOMAIN last
    /\ last.cause.name = "AbortError"
    /\ last.outcome.kind = "PayMongoNetworkError"
    /\ last.outcome.originalError = last.cause

\* C8: every operation, whatever the remote side does, returns a value or fails
\* with a PayMongoError or a PayMongoNetworkError.
C8_OnlyTaxonomyErrors ==
    Operated => last.outcome.kind \in {"value", "PayMongoError", "PayMongoNetworkError"}

\* The response just handled had a success status and a JSON object as body.
SucceededWithObject ==
    /\ Responded
    /\ last.status \in 200..299
    /\ last.read.kind = "text"
    /\ last.read.text.parses
    /\ last.read.text.value.t = "obj"

\* The value of field k of the body just handled, undefined when it has none.
BodyField(k) ==
    LET fields == last.read.text.value.f
    IN  IF k \in DOMAIN fields THEN fields[k] ELSE Undefined

\* C9: every operation other than a list returns exactly what the response
\* body holds under data, and nothing else of the body.
C9_ReturnsInnerResource ==
    (SucceededWithObject /\ last.op.name # "list")
    => last.outcome = [kind |-> "value", value |-> BodyField("data")]

C9_Witness ==
    /\ SucceededWithObject
    /\ last.op = [res |-> "customers", name |-> "deletePaymentMethod"]
    /\ last.outcome.kind = "value"
    /\ last.outcome.value = Resource("id_1", "payment")

\* C10 as claimed: every list operation returns a record { items, hasMore }
\* with items the response's data in the server's order and hasMore its has_more.
C10_ListReturnsItems ==
    (SucceededWithObject /\ last.op.name = "list")
    => /\ last.outcome.kind = "value"
       /\ last.outcome.value.t = "obj"
       /\ DOMAIN last.outcome.value.f = {"items", "hasMore"}
       /\ last.outcome.value.f.items = BodyField("data")
       /\ last.outcome.value.f.hasMore = BodyField("has_more")

\* C10, amended: every list operation returns a record { data, hasMore } with
\* data the response's data in the server's order, nothing re-sorted, filtered
\* or dropped, and hasMore the response's has_more.
C10_ListReturnsData ==
    (SucceededWithObject /\ last.op.name = "list")
    => /\ last.outcome.kind = "value"
       /\ last.outcome.value.t = "obj"
       /\ DOMAIN last.outcome.value.f = {"data", "hasMore"}
       /\ last.outcome.value.f.data = BodyField("data")
       /\ last.outcome.value.f.hasMore = BodyField("has_more")

C10_Witness ==
    /\ SucceededWithObject
    /\ last.op = [res |-> "refunds", name |-> "list"]
    /\ last.outcome.kind = "value"
    /\ last.outcome.value.f.data.t = "list"
    /\ Len(last.outcome.value.f.data.v) = 2
    /\ last.outcome.value.f.data.v[1].f.id = Str(<<"id_3">>)
    /\ last.outcome.value.f.hasMore = Bool(TRUE)

\* C11: getInstance without forceNew returns the stored instance when there is
\* one, whatever configuration it is passed, and constructs nothing; otherwise,
\* and always with forceNew, it runs the constructor and the instance it returns
\* is a new one, distinct from the one stored before, and is the one stored
\* afterwards; resetInstance leaves none stored.  The stored instance changes in
\* no other step (not in a direct construction, not in a getInstance that
\* reuses), so two getInstance calls in a row without forceNew return the same.
C11_CallInv ==
    /\ (pc = "settled" /\ last.api = "getInstance")
       => IF last.before.instance # 0 /\ ~last.forceNew
            THEN /\ ~last.constructs
                 /\ last.outcome = Returned(Ref(last.before.instance))
                 /\ instance = last.before.instance
                 /\ Len(clients) = last.before.clients
            ELSE /\ last.constructs
                 /\ last.outcome.kind = "value"
                    => /\ last.outcome.value = Ref(instance)
                       /\ instance > last.before.clients
                       /\ instance # last.before.instance
                       /\ Len(clients) = last.before.clients + 1
    /\ (pc = "settled" /\ last.api = "resetInstance") => instance = 0

C11_StoredChangesOnlyBy ==
    instance' # instance
    => /\ pc' = "settled"
       /\ \/ last'.api = "resetInstance"
          \/ last'.api = "getInstance" /\ last'.constructs

C11_Singleton == []C11_CallInv /\ [][C11_StoredChangesOnlyBy]_vars

C11_Witness ==
    /\ pc = "settled"
    /\ last.api = "getInstance"
    /\ ~last.forceNew
    /\ last.config.secretKey = Undefined
    /\ last.config.publicKey = Undefined
    /\ Len(clients) = 2
    /\ last.before.instance = 1
    /\ last.outcome = Returned(Ref(1))

\* C13: a construction that fails with PayMongoConfigError, direct or through
\* getInstance with or without forceNew, leaves the stored instance and every
\* constructed client (key, base URL, mode) exactly as they were.
C13_FailedStep ==
    (pc = "idle" /\ pc' = "settled" /\ last'.api \in {"new", "getInstance"}
       /\ last'.outcome.kind = "PayMongoConfigError")
    => /\ instance' = instance
       /\ clients' = clients

C13_FailureChangesNothing == [][C13_FailedStep]_vars

C13_Witness ==
    /\ pc = "settled"
    /\ last.api = "getInstance"
    /\ last.forceNew
    /\ last.outcome.kind = "PayMongoConfigError"
    /\ last.before.instance = 1
    /\ instance = 1
    /\ Len(clients) = 1

\* Every caller is at its first getInstance call, with a configuration the
\* constructor accepts, and no instance is stored.
RaceStart ==
    /\ instance = 0
    /\ \A k \in 1..Len(callers) :
          /\ callers[k].pc = "ready"
          /\ PayMongoNew(callers[k].config).kind = "value"

\* Callers j and k hold different instances and more than one was constructed.
Raced(j, k) ==
    /\ callers[j].pc = "done" /\ callers[j].result.kind = "value"
    /\ callers[k].pc = "done" /\ callers[k].result.kind = "value"
    /\ callers[j].result.value # callers[k].result.value
    /\ Len(clients) > 1

\* C12 as claimed: when two callers are at their first getInstance call with
\* no instance stored, some order of their steps ends with more than one
\* instance constructed and the two holding different instances.
C12_FirstCallsCanRace ==
    RaceStart
    => \E j \in 1..Len(callers), k \in 1..Len(callers) :
          /\ j # k
          /\ ENABLED (CallerGetInstance(j)
                      /\ (ENABLED (CallerGetInstance(k) /\ Raced(j, k)'))')

\* C12, amended: however the callers' steps interleave, at most one instance is
\* constructed and all callers whose getInstance returned hold the same one,
\* the one stored.
C12_FirstCallsShareOne ==
    /\ Len(clients) <= 1
    /\ \A k \in 1..Len(callers) :
          (callers[k].pc = "done" /\ callers[k].result.kind = "value")
          => callers[k].result.value = Ref(instance) /\ instance = 1

C12_Witness ==
    /\ Len(callers) >= 2
    /\ callers[1].pc = "done"
    /\ callers[2].pc = "done"
    /\ callers[1].config # callers[2].config
    /\ callers[1].result = Returned(Ref(1))
    /\ callers[2].result = Returned(Ref(1))
    /\ Len(clients) = 1

\* C16: on every constructed client isClientSide and isServerSide are each
\* other's negation, and isClientSide holds exactly when the client
\* authenticates with a public key; and whatever the mode, every operation of
\* every resource client can be called and hands its request to fetch: each is
\* enabled on every client in every state the caller starts from, every idle
\* state is such a state, with the same clients, and every call goes to fetch.
C16_AllCallable ==
    \A c \in 1..Len(clients), o \in Ops :
       ENABLED (\E a \in ArgsFor(o), runtime \in Runtimes : Call(c, o, a, runtime))

C16_ModeInv ==
    /\ \A c \in 1..Len(clients) :
          /\ isClientSide(clients[c]) = ~isServerSide(clients[c])
          /\ isClientSide(clients[c])
               = (SubSeq(clients[c].config.apiKey, 1, 3) = <<"p", "k", "_">>)
    /\ pc = "idle" => (last = NoCall /\ fetches = 0 /\ inflight = Undefined)

C16_CallIssuesRequest ==
    /\ clients' = clients
    /\ (pc = "idle" /\ pc' # "idle") => (pc' = "fetching" /\ fetches' = 1)

C16_ModeNotEnforced ==
    C16_AllCallable /\ []C16_ModeInv /\ [][C16_CallIssuesRequest]_vars

C16_Witness ==
    /\ pc = "fetching"
    /\ isClientSide(clients[inflight.client])
    /\ ~isServerSide(clients[inflight.client])
    /\ inflight.op = [res |-> "refunds", name |-> "create"]
    /\ fetches = 1

\* C17: the URL of every request is the client's base URL, its path segment
\* included, followed by the resource path.
C17_UrlUnderBaseUrl ==
    InFlight
    => LET baseUrl == clients[inflight.client].http.config.baseUrl
           url == inflight.fetchArgs.url
       IN  /\ url.origin = baseUrl[1]
           /\ Len(url.path) >= 2
           /\ url.path[1] = baseUrl[2]
           /\ url.path[2] = BasePath[inflight.op.res]

\* C18: an operation calls fetch exactly once, when it is invoked, and ends on
\* that call's rejection or on that response's body; fetch is never called
\* again, and once the operation has ended nothing of it is pending.
C18_OneRequestInv ==
    /\ InFlight => (fetches = 1 /\ inflight # Undefined)
    /\ Operated => (fetches = 1 /\ inflight = Undefined)
    /\ pc = "idle" => (fetches = 0 /\ inflight = Undefined)

C18_OneRequestStep ==
    /\ (pc = "idle" /\ pc' # "idle") => (pc' = "fetching" /\ fetches' = 1)
    /\ pc = "fetching" => (pc' \in {"reading", "settled"} /\ fetches' = fetches)
    /\ pc = "reading" => (pc' = "settled" /\ fetches' = fetches)
    /\ pc' = "settled" => last'.api = "operation"

C18_SingleRequest == []C18_OneRequestInv /\ [][C18_OneRequestStep]_vars

C18_Witness ==
    /\ Operated
    /\ "cause" \in DOMAIN last
    /\ last.op = [res |-> "payments", name |-> "retrieve"]
    /\ fetches = 1
    /\ inflight = Undefined

\* The text a query parameter of the inputs is sent as.
SentAs(value) ==
    CASE value = Str(<<"cus_1">>) -> <<"cus_1">>
      [] value = Str(<<>>) -> <<>>
      [] value = Num(0) -> <<"0">>
      [] value = Num(25) -> <<"25">>
      [] value = Bool(FALSE) -> <<"false">>

\* C19: the query holds, in the order of the parameters, one pair for each
\* parameter whose value is not undefined, its value converted to text (0 as
\* "0", false as "false", "" as the empty text), and nothing for a parameter
\* whose value is undefined: no pair with that key, so no "undefined", "null"
\* or empty text in its place.
C19_QueryHoldsDefinedOnly ==
    (pc = "settled" /\ last.api = "buildUrl")
    => LET query == last.outcome.query
           given == IF last.params = Undefined THEN <<>> ELSE last.params.v
           defined == { i \in 1..Len(given) : given[i][2] # Undefined }
           Rank(i) == Cardinality({ j \in defined : j <= i })
       IN  /\ Len(query) = Cardinality(defined)
           /\ \A i \in defined : query[Rank(i)] = <<given[i][1], SentAs(given[i][2])>>
           /\ \A i \in 1..Len(given) :
                 given[i][2] = Undefined
                 => \A j \in 1..Len(query) : query[j][1] # given[i][1]

C19_Witness ==
    /\ pc = "settled"
    /\ last.api = "buildUrl"
    /\ last.params = [t |-> "params",
                      v |-> << <<"after", Str(<<"cus_1">>)>>, <<"limit", Undefined>> >>]
    /\ last.outcome.query = << <<"after", <<"cus_1">>>> >>

RECURSIVE Pruned(_)
\* A record without its entries whose value is undefined or null, at every
\* depth of nested records; sequences are left as they are.
Pruned(rec) ==
    LET present == SelectSeq(rec.e, LAMBDA kv : kv[2].t \notin {"undefined", "null"})
    IN  Rec([i \in 1..Len(present) |->
               <<present[i][1],
                 IF present[i][2].t = "rec" THEN Pruned(present[i][2]) ELSE present[i][2]>>])

RECURSIVE KeysIn(_)
\* The keys of a record and of the records nested in it, not those in sequences.
KeysIn(rec) ==
    { rec.e[i][1] : i \in 1..Len(rec.e) }
    \cup UNION { IF rec.e[i][2].t = "rec" THEN KeysIn(rec.e[i][2]) ELSE {} :
                 i \in 1..Len(rec.e) }

RECURSIVE ListsIn(_)
\* The sequences held by a record and by the records nested in it.
ListsIn(rec) ==
    { rec.e[i][2] : i \in { j \in 1..Len(rec.e) : rec.e[j][2].t = "list" } }
    \cup UNION { IF rec.e[i][2].t = "rec" THEN ListsIn(rec.e[i][2]) ELSE {} :
                 i \in 1..Len(rec.e) }

HasUpperCase(key) ==
    \E i \in 1..Len(key), j \in 1..Len(UpperCase) : key[i] = UpperCase[j]

\* C20: toSnakeCase applied to its own result returns that result; applied to
\* a record whose keys, nested ones included, are already underscore-joined it
\* returns every entry that has a value under the same key; its result has no
\* upper-case letter in any key at any depth of nested records; and every
\* sequence in the result is one of the argument's, its elements (records with
\* camel-case keys among them) as they were.
C20_KeyTransform ==
    (pc = "settled" /\ last.api = "toSnakeCase")
    => /\ last.again = last.outcome
       /\ (\A key \in KeysIn(last.obj) : ~HasUpperCase(key))
            => last.outcome = Pruned(last.obj)
       /\ \A key \in KeysIn(last.outcome) : ~HasUpperCase(key)
       /\ ListsIn(last.outcome) \subseteq ListsIn(last.obj)

C20_Witness ==
    /\ pc = "settled"
    /\ last.api = "toSnakeCase"
    /\ last.obj = Rec(<< <<<<"a", "B">>,
                           Rec(<< <<<<"a", "B">>, Rec(<< <<<<"a", "B">>, Str(<<"x">>)>> >>)>> >>)>>,
                         <<<<"c">>, List(<<Rec(<< <<<<"a", "B">>, Str(<<"x">>)>> >>)>>)>> >>)
    /\ last.outcome
         = Rec(<< <<<<"a", "_", "b">>,
                    Rec(<< <<<<"a", "_", "b">>,
                             Rec(<< <<<<"a", "_", "b">>, Str(<<"x">>)>> >>)>> >>)>>,
                  <<<<"c">>, List(<<Rec(<< <<<<"a", "B">>, Str(<<"x">>)>> >>)>>)>> >>)

\* C14: against the stub, retrieve called with the id of a payment intent that
\* create returned sends GET /payment_intents/<that id> and returns a resource
\* with the same id and type.
C14_CreateThenRetrieve ==
    (Operated /\ last.op = [res |-> "paymentIntents", name |-> "retrieve"])
    => \A created \in kept.created :
          created.f.id = last.args.id
          => /\ last.request.method = "GET"
             /\ last.request.path = <<"/payment_intents", "/">> \o created.f.id.v
             /\ last.outcome.kind = "value"
             /\ last.outcome.value.f.id = created.f.id
             /\ last.outcome.value.f.type = created.f.type

C14_Witness ==
    /\ Operated
    /\ last.op = [res |-> "paymentIntents", name |-> "retrieve"]
    /\ Cardinality(kept.created) = 2
    /\ last.args.id = Str(<<"pi_2">>)
    /\ \E created \in kept.created : created.f.id = last.args.id
    /\ last.outcome.kind = "value"
    /\ last.outcome.value.f.id = Str(<<"pi_2">>)
    /\ last.outcome.value.f.type = Str(<<"payment_intent">>)

\* The list call just completed asked for the page after the page kept before
\* it: that page was of the same resource and said hasMore, and the call's
\* after was the id of its last item.
AskedForNextPage ==
    /\ Operated
    /\ last.op.name = "list"
    /\ kept.previous # None
    /\ kept.previous.res = last.op.res
    /\ kept.previous.hasMore = Bool(TRUE)
    /\ kept.previous.items # <<>>
    /\ last.args.params # Undefined
    /\ "after" \in DOMAIN last.args.params.f
    /\ last.args.params.f.after = kept.previous.items[Len(kept.previous.items)].f.id

\* C15: against the stub, a list call that asks for the page after a page that
\* said hasMore sends the id of that page's last item as the one after
\* parameter of its query, and returns a page that shares no item with it.
C15_NextPageDisjoint ==
    AskedForNextPage
    => LET cursor == last.args.params.f.after
           sent == { i \in 1..Len(last.request.query) : last.request.query[i][1] = "after" }
       IN  /\ Cardinality(sent) = 1
           /\ \A i \in sent : last.request.query[i][2] = cursor.v
           /\ last.outcome.kind = "value"
           /\ last.outcome.value.f.data.t = "list"
           /\ last.outcome.value.f.data.v # <<>>
           /\ \A i \in 1..Len(last.outcome.value.f.data.v),
                 j \in 1..Len(kept.previous.items) :
                 last.outcome.value.f.data.v[i].f.id # kept.previous.items[j].f.id

C15_Witness ==
    /\ AskedForNextPage
    /\ last.op.res = "customers"
    /\ Len(kept.previous.items) = 2
    /\ kept.previous.items[2].f.id = Str(<<"id_1">>)
    /\ last.request.query = << <<"after", <<"id_1">>>> >>
    /\ last.outcome.kind = "value"
    /\ Len(last.outcome.value.f.data.v) = 2
    /\ last.outcome.value.f.data.v[1].f.id = Str(<<"id_4">>)
    /\ last.outcome.value.f.hasMore = Bool(FALSE)

RECURSIVE NullIn(_)
\* A serialized value holds null as the value of a property, at some depth of
\* nested records (what sequences hold is not looked at).
NullIn(value) ==
    CASE value.t = "rec" ->
           \E i \in 1..Len(value.e) : value.e[i][2].t = "null" \/ NullIn(value.e[i][2])
      [] value.t = "obj" ->
           \E k \in DOMAIN value.f : value.f[k].t = "null" \/ NullIn(value.f[k])
      [] OTHER -> FALSE

\* The request in flight is that of operation name of resource res.
Sending(res, name) == pc = "fetching" /\ inflight.op = [res |-> res, name |-> name]

\* The attributes the request in flight carries in its serialized body.
SentAttributes == inflight.fetchArgs.body.v.f.data.f.attributes

\* C21: the serialized body of every create and update operation holds no
\* null: a parameter whose value is undefined or null, at any depth of nested
\* records, is left out of the request.
C21_AbsentNeverSent ==
    (pc = "fetching" /\ inflight.op.name \in {"create", "update"})
    => ~NullIn(inflight.fetchArgs.body.v)

\* C22: the body of every create, update and attach request is
\* { data: { attributes: A } } and every key of A, through nested records but
\* not into sequences, is in underscore-joined lowercase: the conversion of the
\* key the caller wrote.
C22_EveryKeyConverted ==
    (pc = "fetching" /\ inflight.op \in BodyOps)
    => LET body == inflight.fetchArgs.body
       IN  /\ body # Undefined
           /\ DOMAIN body.v.f = {"data"}
           /\ DOMAIN body.v.f.data.f = {"attributes"}
           /\ \A key \in KeysIn(SentAttributes) : ~HasUpperCase(key)

\* The request in flight is PaymentMethods.create called with type card and
\* card details.
SendingCard ==
    /\ Sending("paymentMethods", "create")
    /\ inflight.args.params.f.type = Str(<<"card">>)
    /\ inflight.args.params.f.details # Undefined

\* The field table of the card details: the caller's name, the name sent.
CardFieldTable ==
    << <<KeyChars.cardNumber, KeyChars.card_number>>,
       <<KeyChars.expMonth, KeyChars.exp_month>>,
       <<KeyChars.expYear, KeyChars.exp_year>>,
       <<KeyChars.cvc, KeyChars.cvc>> >>

\* C23: PaymentMethods.create with type card sends a details record of exactly
\* card_number, exp_month, exp_year and cvc, each with the value the caller
\* gave under cardNumber, expMonth, expYear and cvc, and nothing else of what
\* the caller's details hold.
C23_CardFieldTable ==
    SendingCard
    => LET given == inflight.args.params.f.details.e
           sent == SentAttributes.e
           at == { i \in 1..Len(sent) : sent[i][1] = KeyChars.details }
       IN  /\ Cardinality(at) = 1
           /\ \A i \in at :
                 /\ sent[i][2].t = "rec"
                 /\ Len(sent[i][2].e) = Len(CardFieldTable)
                 /\ \A j \in 1..Len(CardFieldTable) :
                       /\ sent[i][2].e[j][1] = CardFieldTable[j][2]
                       /\ \E g \in 1..Len(given) :
                             given[g] = <<CardFieldTable[j][1], sent[i][2].e[j][2]>>

C23_Witness ==
    /\ SendingCard
    /\ Len(inflight.args.params.f.details.e) = 5
    /\ \E i \in 1..Len(SentAttributes.e) :
          SentAttributes.e[i]
            = <<KeyChars.details,
                Rec(<< <<KeyChars.card_number, Str(<<"4343434343434345">>)>>,
                       <<KeyChars.exp_month, Num(12)>>,
                       <<KeyChars.exp_year, Num(2025)>>,
                       <<KeyChars.cvc, Str(<<"123">>)>> >>)>>

\* The keys of the attributes the request in flight carries.
SentKeys == { SentAttributes.e[i][1] : i \in 1..Len(SentAttributes.e) }

\* The value the attributes in flight carry under a key.
SentUnder(key) ==
    SentAttributes.e[CHOOSE i \in 1..Len(SentAttributes.e) : SentAttributes.e[i][1] = key][2]

\* C30: PaymentMethods.create sends a details record exactly when the type is
\* card and details were given: details given with another type are not sent.
\* In both cases the type is sent, and so are billing and metadata when given:
\* the metadata record as it is, the billing record with the properties that
\* have a value.
C30_DetailsOnlyForCard ==
    Sending("paymentMethods", "create")
    => LET params == inflight.args.params.f
       IN  /\ KeyChars.details \in SentKeys
                <=> (params.type = Str(<<"card">>) /\ params.details # Undefined)
           /\ KeyChars.type \in SentKeys
           /\ SentUnder(KeyChars.type) = params.type
           /\ params.metadata # Undefined
                => (KeyChars.metadata \in SentKeys
                    /\ SentUnder(KeyChars.metadata) = params.metadata)
           /\ params.billing # Undefined
                => (KeyChars.billing \in SentKeys
                    /\ SentUnder(KeyChars.billing).e[1] = params.billing.e[1])
           /\ SentKeys \subseteq {KeyChars.type, KeyChars.billing, KeyChars.metadata,
                                   KeyChars.details}

C30_Witness ==
    /\ Sending("paymentMethods", "create")
    /\ inflight.args.params.f.type = Str(<<"gcash">>)
    /\ inflight.args.params.f.details # Undefined
    /\ inflight.args.params.f.billing # Undefined
    /\ inflight.args.params.f.metadata # Undefined
    /\ SentKeys = {KeyChars.type, KeyChars.billing, KeyChars.metadata}

\* The operations the claim names as shaped through wrapBody, and the two that
\* write their body by hand.
WrappedOps ==
    { [res |-> "paymentIntents", name |-> "create"],
      [res |-> "customers", name |-> "create"],
      [res |-> "customers", name |-> "update"],
      [res |-> "refunds", name |-> "create"],
      [res |-> "paymentMethods", name |-> "update"] }

HandWrittenOps ==
    { [res |-> "paymentMethods", name |-> "create"],
      [res |-> "checkoutSessions", name |-> "create"] }

\* The metadata keys of the inputs as the remote API spells them.
Underscored(key) ==
    IF key = <<"o", "r", "d", "e", "r", "I", "d">>
      THEN <<"o", "r", "d", "e", "r", "_", "i", "d">>
      ELSE key

\* C27: a request of an operation shaped through wrapBody carries the caller's
\* metadata with each key converted (orderId as order_id) and without the
\* entries whose value is null, the others in the caller's order with their
\* values; a request of PaymentMethods.create or CheckoutSessions.create
\* carries the metadata record exactly as the caller gave it.
C27_MetadataThroughWrapBody ==
    (pc = "fetching" /\ inflight.op \in WrappedOps \cup HandWrittenOps
       /\ inflight.args.params.f.metadata # Undefined)
    => LET given == inflight.args.params.f.metadata
           present == SelectSeq(given.e, LAMBDA kv : kv[2] # Null)
       IN  /\ KeyChars.metadata \in SentKeys
           /\ inflight.op \in WrappedOps
                => SentUnder(KeyChars.metadata)
                     = Rec([i \in 1..Len(present) |->
                              <<Underscored(present[i][1]), present[i][2]>>])
           /\ inflight.op \in HandWrittenOps
                => SentUnder(KeyChars.metadata) = given

C27_Witness ==
    /\ Sending("paymentIntents", "create")
    /\ inflight.args.params.f.metadata
         = Rec(<< <<<<"n", "o", "t", "e">>, Null>>,
                  <<<<"o", "r", "d", "e", "r", "I", "d">>, Str(<<"12345">>)>> >>)
    /\ SentUnder(KeyChars.metadata)
         = Rec(<< <<<<"o", "r", "d", "e", "r", "_", "i", "d">>, Str(<<"12345">>)>> >>)

\* An id or a suffix counts as given when it is a text that is not empty.
Given(part) == part.t = "str" /\ part.v # <<>>

\* C24: buildPath yields the resource client's base path, then "/" and the id
\* when an id is given, then "/" and the suffix when a suffix is given, each
\* independently of the other: basePath, basePath/id, basePath/suffix and
\* basePath/id/suffix; the base path it starts from is the one the resource
\* client was constructed with.
C24_PathConstruction ==
    last.api = "buildPath"
    => LET basePath == BasePath[last.res]
           id == last.id
           suffix == last.suffix
       IN  /\ (~Given(id) /\ ~Given(suffix)) => last.outcome = <<basePath>>
           /\ (Given(id) /\ ~Given(suffix)) => last.outcome = <<basePath, "/">> \o id.v
           /\ (~Given(id) /\ Given(suffix))
                => last.outcome = <<basePath, "/">> \o suffix.v
           /\ (Given(id) /\ Given(suffix))
                => last.outcome = <<basePath, "/">> \o id.v \o <<"/">> \o suffix.v

C24_Witness ==
    /\ last.api = "buildPath"
    /\ last.res = "customers"
    /\ last.id = Undefined
    /\ last.suffix = Str(<<"payment_methods">>)
    /\ last.outcome = <<"/customers", "/", "payment_methods">>

\* C25: the argument request hands to fetch has a body, the JSON text of the
\* one supplied, exactly when the method is POST or PATCH and a body was
\* supplied; with GET or DELETE it has none, and the POST requests of enable,
\* disable and expire have none.
C25_BodyOnlyWithPayloadMethods ==
    last.api = "request"
    => LET options == last.options
           sent == last.outcome.body
       IN  /\ sent # Undefined
                <=> (options.method \in {"POST", "PATCH"} /\ options.body # Undefined)
           /\ sent # Undefined
                => (sent.t = "json" /\ sent.v = JsonStringify(options.body))
           /\ options.method \in {"GET", "DELETE"} => sent = Undefined
           /\ (last.op # NoCall /\ last.op.name \in {"enable", "disable", "expire"})
                => (options.method = "POST" /\ sent = Undefined)

C25_Witness ==
    /\ last.api = "request"
    /\ last.op = [res |-> "webhooks", name |-> "enable"]
    /\ last.options.method = "POST"
    /\ last.outcome.method = "POST"
    /\ last.outcome.body = Undefined

C29_DirectStep ==
    (pc = "idle" /\ pc' = "settled" /\ last'.api = "new")
    => /\ instance' = instance
       /\ Len(clients') >= Len(clients)
       /\ \A i \in 1..Len(clients) : clients'[i] = clients[i]

C29_CallInv ==
    /\ (pc = "settled" /\ last.api = "new" /\ last.outcome.kind = "value")
       => LET own == last.config
              client == clients[last.outcome.value.id]
          IN  /\ last.outcome.value.id = last.before.clients + 1
              /\ last.outcome.value.id # instance
              /\ instance = last.before.instance
              /\ client.http.config.apiKey
                   = IF Truthy(own.secretKey) THEN own.secretKey.v ELSE own.publicKey.v
              /\ client.http.config.baseUrl
                   = IF own.baseUrl = Undefined THEN DEFAULT_BASE_URL ELSE own.baseUrl.v
    /\ (pc = "settled" /\ last.api = "getInstance" /\ ~last.forceNew
          /\ last.before.instance # 0)
       => /\ last.outcome = Returned(Ref(last.before.instance))
          /\ instance = last.before.instance

C29_DirectConstructionApart == []C29_CallInv /\ [][C29_DirectStep]_vars

C29_Witness ==
    /\ pc = "settled"
    /\ last.api = "new"
    /\ instance = 1
    /\ last.outcome = Returned(Ref(2))
    /\ clients[2].http.config.apiKey # clients[1].http.config.apiKey
    /\ clients[2].http.config.baseUrl # clients[1].http.config.baseUrl
    /\ clients[1].http.config.baseUrl = DEFAULT_BASE_URL

====
